---- MODULE Spec2Model ----
(***************************************************************************)
(* Model of the Epubizon reader: the session controller (renderer.js), the *)
(* EPUB and PDF adapters (epub-handler.js, pdf-handler.js) and the chapter *)
(* list virtualisation.  Asynchronous methods are split at their awaits:   *)
(* every action is the synchronous stretch of code between two awaits.     *)
(***************************************************************************)
EXTENDS Integers, Sequences, FiniteSets, TLC

VARIABLES
    currentBook,        \* EpubizonApp.currentBook (NoBook or a file)
    currentChapter,     \* EpubizonApp.currentChapter
    currentPage,        \* EpubizonApp.currentPage
    totalPages,         \* EpubizonApp.totalPages
    chapters,           \* EpubizonApp.chapters
    isLargeFile,        \* EpubizonApp.isLargeFile
    epubHandler,        \* EpubizonApp.epubHandler (0 = not set, else adapter id)
    pdfHandler,         \* EpubizonApp.pdfHandler  (0 = not set, else adapter id)
    handlers,           \* the adapter instances created so far, by id
    tasks,              \* suspended async calls (each waits at one await)
    loadingOverlay,     \* #loadingOverlay shown
    errorShown,         \* the last open attempt ended in showError
    chaptersList,       \* #chaptersList as last built
    documentContainer,  \* #documentContainer.innerHTML as last written
    docAdapter,         \* adapter whose descriptor is in chapters/totalPages
    window,             \* which libraries window.ePub / window.pdfjsLib hold
    ret,                \* result of the latest adapter call
    settings,           \* EpubizonApp.settings
    settingsModal,      \* #settingsModal shown
    summaryPanel        \* #summaryPanel: shown, loading, text

vars == <<currentBook, currentChapter, currentPage, totalPages, chapters,
          isLargeFile, epubHandler, pdfHandler, handlers, tasks,
          loadingOverlay, errorShown, chaptersList, documentContainer,
          docAdapter, window, ret, settings, settingsModal, summaryPanel>>

appVars == <<currentBook, currentChapter, currentPage, totalPages, chapters,
             isLargeFile, epubHandler, pdfHandler>>

domVars == <<loadingOverlay, errorShown, chaptersList, documentContainer>>

sumVars == <<settings, settingsModal, summaryPanel>>

----------------------------------------------------------------------------
(* Bounds of the model *)

MaxHandlers == 2        \* adapter instances created in one behaviour of Spec
SeqHandlers == 1        \* adapter instances created in one behaviour of SpecSeq
MaxSeed == 1            \* distinct document contents of the text model
MaxTasks == 2           \* async calls suspended at the same time
MaxPdfPages == 2        \* numPages of a really loaded PDF
MaxToc == 2             \* entries of an EPUB table of contents (session model)
MaxSpine == 1           \* spine items of an EPUB without toc (session model)
MaxUnit == 2            \* largest unit index the text getters are probed with
MaxBlobs == 3            \* blob URLs one adapter creates for images
AdapterCalls == 1       \* adapter model: calls suspended at the same time
SummaryCalls == 1       \* summary model: summaries in flight at the same time
MaxEstimate == 150      \* estimate model: chapter counts 1..MaxEstimate
MaxPages == 50          \* chaptering model: PDFs of 1..MaxPages pages
MaxPad == 102           \* excerpt model: up to MaxPad characters around the match
MaxChapters == 101      \* chapter-list model: tables of contents of 101..MaxChapters entries

----------------------------------------------------------------------------
(* Generic helpers *)

Max(a, b) == IF a >= b THEN a ELSE b
Min(a, b) == IF a <= b THEN a ELSE b

Put(m, k, v) == [x \in (DOMAIN m) \cup {k} |-> IF x = k THEN v ELSE m[x]]

EmptyMap == [x \in {} |-> 0]

RemoveAt(s, i) == [j \in 1..(Len(s) - 1) |-> IF j < i THEN s[j] ELSE s[j + 1]]

----------------------------------------------------------------------------
(* Text: strings are sequences of one-character strings *)

IsSpace(c) == c = " "

RECURSIVE TrimLeft(_)
TrimLeft(s) == IF s # <<>> /\ IsSpace(Head(s)) THEN TrimLeft(Tail(s)) ELSE s

RECURSIVE TrimRight(_)
TrimRight(s) ==
    IF s # <<>> /\ IsSpace(s[Len(s)])
    THEN TrimRight(SubSeq(s, 1, Len(s) - 1)) ELSE s

\* String.prototype.trim
Trim(s) == TrimRight(TrimLeft(s))

\* Array.prototype.join(' ')
RECURSIVE JoinSpace(_)
JoinSpace(items) ==
    IF items = <<>> THEN <<>>
    ELSE IF Len(items) = 1 THEN items[1]
    ELSE items[1] \o <<" ">> \o JoinSpace(Tail(items))

\* .replace(/\s+/g, ' ')
RECURSIVE NormalizeWhitespace(_)
NormalizeWhitespace(s) ==
    IF s = <<>> THEN <<>>
    ELSE IF IsSpace(Head(s))
         THEN <<" ">> \o NormalizeWhitespace(TrimLeft(s))
         ELSE <<Head(s)>> \o NormalizeWhitespace(Tail(s))

\* length of the run of copies of c that starts s
RECURSIVE RunLength(_, _)
RunLength(s, c) ==
    IF s # <<>> /\ Head(s) = c THEN 1 + RunLength(Tail(s), c) ELSE 0

\* .replace(/(.)\1{3,}/g, '$1'): a run of four or more equal characters
\* becomes one character; shorter runs are kept
RECURSIVE CollapseRepeats(_)
CollapseRepeats(s) ==
    IF s = <<>> THEN <<>>
    ELSE LET c == Head(s)
             n == RunLength(s, c)
         IN IF n >= 4
            THEN <<c>> \o CollapseRepeats(SubSeq(s, n + 1, Len(s)))
            ELSE <<c>> \o CollapseRepeats(Tail(s))

\* items.filter(item => item.str && item.str.trim()).map(item => item.str)
RECURSIVE FilterItems(_)
FilterItems(items) ==
    IF items = <<>> THEN <<>>
    ELSE IF Trim(Head(items)) # <<>>
         THEN <<Head(items)>> \o FilterItems(Tail(items))
         ELSE FilterItems(Tail(items))

\* the clean-up chain of PdfHandler.getPageText
CleanPdfText(items) ==
    Trim(CollapseRepeats(NormalizeWhitespace(JoinSpace(FilterItems(items)))))

\* Text-run items the PDF library reports for a page: three sample pages
\* (plain words with stray spaces, a ruler of repeated dashes, blank runs).
SampleItems ==
    << << <<"a", " ", " ", "b">>, <<" ">>, <<"c">> >>,
       << <<"-", "-", "-", "-", "-">>, <<"a", "a", "a">> >>,
       << <<" ", " ">>, <<" ", "x", " ">> >> >>

PageItems(seed, pageNumber) == SampleItems[((seed + pageNumber) % 3) + 1]

----------------------------------------------------------------------------
(* Chapters.  A chapter is a record; pageStart = 0 stands for a chapter    *)
(* without pageStart (EPUB), pageCount = 0 for pageCount null/absent, and  *)
(* href = FALSE for an empty href.                                         *)

Chapter(title, href, pageCount, pageStart, pageEnd) ==
    [title |-> title, href |-> href, pageCount |-> pageCount,
     pageStart |-> pageStart, pageEnd |-> pageEnd]

\* EpubHandler.extractChaptersLazy, table-of-contents branch
TocChapters(n) ==
    [i \in 1..n |-> Chapter(<<"Label", i>>, TRUE, 0, 0, 0)]

\* EpubHandler.extractChaptersLazy, spine branch: at most 200 spine items
SpineChapters(m) ==
    [i \in 1..Min(m, 200) |-> Chapter(<<"Section", i>>, TRUE, 0, 0, 0)]

\* EpubHandler.extractChaptersLazy, catch branch
FallbackChapters == << Chapter(<<"Chapter", 1>>, FALSE, 0, 0, 0) >>

\* EpubHandler.mockLoadBook
MockEpubChapters ==
    << Chapter(<<"Chapter 1: Introduction">>, TRUE, 15, 0, 0),
       Chapter(<<"Chapter 2: Getting Started">>, TRUE, 20, 0, 0),
       Chapter(<<"Chapter 3: Advanced Topics">>, TRUE, 25, 0, 0),
       Chapter(<<"Chapter 4: Examples">>, TRUE, 18, 0, 0),
       Chapter(<<"Chapter 5: Conclusion">>, TRUE, 12, 0, 0) >>

RECURSIVE SumPageCount(_)
SumPageCount(chs) ==
    IF chs = <<>> THEN 0 ELSE Head(chs).pageCount + SumPageCount(Tail(chs))

\* PdfHandler.mockLoadPdf
MockPdfChapters ==
    << Chapter(<<"Table of Contents">>, FALSE, 0, 1, 2),
       Chapter(<<"Introduction">>, FALSE, 0, 3, 8),
       Chapter(<<"Chapter 1: Fundamentals">>, FALSE, 0, 9, 18),
       Chapter(<<"Chapter 2: Advanced Concepts">>, FALSE, 0, 19, 28),
       Chapter(<<"Chapter 3: Practical Applications">>, FALSE, 0, 29, 38),
       Chapter(<<"Chapter 4: Case Studies">>, FALSE, 0, 39, 43),
       Chapter(<<"Conclusion">>, FALSE, 0, 44, 45) >>

MockPdfPages == 45

\* PdfHandler.createChaptersFromPages: the loop from page offset i
RECURSIVE PagesLoop(_, _, _)
PagesLoop(i, chaptersPerSection, total) ==
    IF i >= total THEN <<>>
    ELSE LET startPage == i + 1
             endPage == Min(i + chaptersPerSection, total)
             chapterNum == (i \div chaptersPerSection) + 1
             title == IF startPage = 1 THEN <<"Introduction">>
                      ELSE IF endPage = total THEN <<"Conclusion">>
                      ELSE <<"Chapter", chapterNum>>
         IN << Chapter(title, FALSE, 0, startPage, endPage) >>
            \o PagesLoop(i + chaptersPerSection, chaptersPerSection, total)

\* chapters of seven pages whatever the page count
CreateChaptersFromPagesOfSeven(total) ==
    PagesLoop(0, 7, total)

CreateChaptersFromPages(total) ==
    PagesLoop(0, Max(1, total \div 7), total)

\* an estimate of two pages per chapter whatever the chapter count
EstimateTotalPagesBase(book, n) ==
    IF ~book \/ n = 0 THEN 1 ELSE n * 2

\* EpubHandler.estimateTotalPages.  n * 1.5 is compared in halves: it is
\* never the larger operand, so the result is always an integer.
EstimateTotalPages(book, n) ==
    IF ~book \/ n = 0 THEN 1
    ELSE LET baseEstimate == n * 2
         IN IF n > 100
            THEN (IF 2 * baseEstimate >= 3 * n THEN baseEstimate
                  ELSE (3 * n) \div 2)
            ELSE IF n > 50 THEN Max(baseEstimate, n * 2)
            ELSE Max(baseEstimate, n * 3)

----------------------------------------------------------------------------
(* Adapter instances *)

NoText == <<"none">>

\* constructor of EpubHandler / PdfHandler.  book is this.book or
\* this.pdfDocument being set, lib is this.pdfjsLib being set, seed
\* identifies the bytes the adapter was given, destroyed records that
\* destroy() has run.  imageBlobUrls is the set of tracked blob URLs (the
\* URLs the adapter created are numbered 1..blobCount), revoked the URLs
\* passed to URL.revokeObjectURL.
NewHandler(kind, seed) ==
    [kind |-> kind, book |-> FALSE, lib |-> FALSE, chapters |-> <<>>,
     totalPages |-> 0, textContent |-> EmptyMap, destroyed |-> FALSE,
     seed |-> seed, imageBlobUrls |-> {}, blobCount |-> 0, revoked |-> {}]

NoHandler == NewHandler("none", 0)

\* a destroy that leaves the text cache as it is
DestroyedKeepingText(h) ==
    [h EXCEPT !.book = FALSE, !.chapters = <<>>, !.totalPages = 0,
              !.revoked = @ \cup h.imageBlobUrls, !.imageBlobUrls = {},
              !.destroyed = TRUE]

\* EpubHandler.destroy / PdfHandler.destroy
Destroyed(h) ==
    [h EXCEPT !.book = FALSE, !.chapters = <<>>, !.totalPages = 0,
              !.textContent = EmptyMap,
              !.revoked = @ \cup h.imageBlobUrls, !.imageBlobUrls = {},
              !.destroyed = TRUE]

\* a range check of the PDF methods that lets page 0 through
UnitInRangeFromZero(h, i) ==
    IF h.kind = "epub" THEN i >= 0 /\ i < Len(h.chapters)
    ELSE i >= 0 /\ i <= h.totalPages

\* the range check at the head of getChapterText/renderChapter (index from
\* 0) and of getPageText/renderPage (page number from 1)
UnitInRange(h, i) ==
    IF h.kind = "epub" THEN i >= 0 /\ i < Len(h.chapters)
    ELSE i >= 1 /\ i <= h.totalPages

\* the guard of the real path: this.book && chapter.href, respectively
\* this.pdfDocument && this.pdfjsLib
UsesLibrary(h, i) ==
    IF h.kind = "epub" THEN h.book /\ h.chapters[i + 1].href
    ELSE h.book /\ h.lib

\* the fallback text of getChapterText (it embeds the chapter title)
MockChapterText(title) == <<"mock chapter text", title>>

\* PdfHandler.mockExtractPageText
MockPageText(pageNumber) == <<"mock page text", pageNumber>>

\* Outcomes of the library calls of one extraction
EpubOutcomes == {"loaded", "loadError", "noSpineItem"}
PdfOutcomes == {"ok", "error"}

\* EpubHandler.getChapterText after `await this.book.loaded.spine`.
\* "loaded": book.load returned the content; the cleaning statement then
\*   reads `textContent`, which is declared with let inside the inner try
\*   block and is out of scope: ReferenceError, caught by the outer catch.
\* "loadError": the inner catch assigns the same undeclared name (class
\*   code is strict), or this.book is null: caught by the outer catch.
\* "noSpineItem": the if is skipped.
\* Every path ends in the fallback text.
EpubExtract(title, outcome) ==
    CASE outcome = "loaded" -> MockChapterText(title)
      [] outcome = "loadError" -> MockChapterText(title)
      [] OTHER -> MockChapterText(title)

\* PdfHandler.getPageText after the awaits on getPage/getTextContent
PdfExtract(seed, pageNumber, outcome) ==
    IF outcome = "ok"
    THEN <<"text", CleanPdfText(PageItems(seed, pageNumber))>>
    ELSE MockPageText(pageNumber)

\* a getter that returns the text without storing it
CacheTextSkipped(h, i, text) == h

\* this.textContent.set(unit, text) at the end of either getter: the real
\* text and the fallback text are both stored
CacheText(h, i, text) == [h EXCEPT !.textContent = Put(@, i, text)]

\* the text a getter call that does not use the library returns
FallbackText(h, i) ==
    IF h.kind = "epub" THEN MockChapterText(h.chapters[i + 1].title)
    ELSE MockPageText(i)

----------------------------------------------------------------------------
(* The chapter list of the sidebar.  A list shows the entries first..last-1 *)
(* (indices from 0), marks the entries in active, and carries the          *)
(* arguments of the showChapterRange call behind each jump affordance      *)
(* (<<>> when the affordance is absent).                                   *)

ChapterList(first, last, cur, before, after) ==
    [first |-> first, last |-> last,
     active |-> {i \in first..(last - 1) : i = cur},
     before |-> before, after |-> after]

NoList == ChapterList(0, 0, 0, <<>>, <<>>)

Displayed(list) == list.first..(list.last - 1)

\* a window that starts 30 chapters before the current one
WindowStartWide(cur) == Max(0, cur - 30)

\* the bounds of the window of EpubizonApp.updateChaptersList
WindowStart(cur) == Max(0, cur - 25)
WindowEnd(n, cur) == Min(n, WindowStart(cur) + 50)

\* the showChapterRange arguments bound to the jumpStart element
JumpStartArgs(start) == <<0, 50>>

\* the showChapterRange arguments bound to a jumpEnd element
JumpEndArgs(n, end) == <<end, Min(n, end + 50)>>

\* EpubizonApp.updateChaptersList
UpdateChaptersList(chs, cur, large) ==
    IF large /\ Len(chs) > 100
    THEN LET start == WindowStart(cur)
             end == WindowEnd(Len(chs), cur)
         IN ChapterList(start, end, cur,
                IF start > 0 THEN JumpStartArgs(start) ELSE <<>>,
                IF end < Len(chs) THEN JumpEndArgs(Len(chs), end) ELSE <<>>)
    ELSE ChapterList(0, Len(chs), cur, <<>>, <<>>)

\* EpubizonApp.showChapterRange
ShowChapterRange(chs, cur, start, end) ==
    ChapterList(start, Max(start, Min(end, Len(chs))), cur,
        IF start > 0 THEN <<Max(0, start - 50), start>> ELSE <<>>,
        IF end < Len(chs) THEN JumpEndArgs(Len(chs), end) ELSE <<>>)

----------------------------------------------------------------------------
(* Session controller: files, suspended calls, rendering *)

NoBook == [ext |-> "none", seed |-> 0]

\* what window.electronAPI.selectFile can resolve with (besides null)
Files == [ext : {".epub", ".pdf", ".txt"}, seed : {0}]

\* a call suspended at an await.  kind "open": openFile at pc; kind "nav":
\* a navigation method awaiting its render (cont "page" for
\* previousPage/nextPage, "chapter" for goToChapter); kind "text": a text
\* getter awaiting the library (title: the title of the chapter it read
\* before the await).
Task(kind, pc, h, unit, cont) ==
    [kind |-> kind, pc |-> pc, h |-> h, unit |-> unit, cont |-> cont,
     title |-> <<>>]

\* the native file dialog is open (it is modal to the window)
DialogOpen == \E k \in 1..Len(tasks) : tasks[k].pc = "select"

NoContent == [h |-> 0, unit |-> 0]

\* What renderChapter / renderPage of adapter h does when called for unit:
\* it throws on the range check, suspends at a library await, or returns
\* the placeholder content without waiting for anything.
RenderCall(h, unit) ==
    IF ~UnitInRange(h, unit) THEN "throw"
    ELSE IF UsesLibrary(h, unit) THEN "suspend"
    ELSE "done"

\* EpubizonApp.renderCurrentContent with renderCurrentChapter and
\* renderCurrentPage: which adapter is asked for which unit
RenderTarget(book, eh, ph, chs, cc, cp) ==
    IF book.ext = ".epub"
    THEN IF eh # 0 /\ cc >= 0 /\ cc < Len(chs)
         THEN [h |-> eh, unit |-> cc] ELSE NoContent
    ELSE IF book.ext = ".pdf"
    THEN IF ph # 0 THEN [h |-> ph, unit |-> cp] ELSE NoContent
    ELSE NoContent

\* renderCurrentChapter alone (loadEpub calls it directly)
ChapterTarget(eh, chs, cc) ==
    IF eh # 0 /\ cc >= 0 /\ cc < Len(chs)
    THEN [h |-> eh, unit |-> cc] ELSE NoContent

\* renderCurrentPage alone (loadPdf calls it directly)
PageTarget(ph, cp) == IF ph # 0 THEN [h |-> ph, unit |-> cp] ELSE NoContent

RenderResult(hs, target) ==
    IF target.h = 0 THEN "skip" ELSE RenderCall(hs[target.h], target.unit)

\* goToChapter without the assignment of pageStart
GoToChapterPageKept(chs, chapterIndex, page) == page

\* the page goToChapter leaves in currentPage
GoToChapterPage(chs, chapterIndex, page) ==
    IF chs[chapterIndex + 1].pageStart # 0
    THEN chs[chapterIndex + 1].pageStart ELSE page

----------------------------------------------------------------------------
(* Session states of the controller *)

Loading == \E k \in 1..Len(tasks) : tasks[k].kind = "open"
DocumentLoaded == docAdapter # 0
Ready == DocumentLoaded /\ ~Loading /\ ~errorShown
NoDocument == ~DocumentLoaded /\ ~Loading /\ ~errorShown
Failed == ~Loading /\ errorShown

----------------------------------------------------------------------------
(* openFile, loadEpub, loadPdf and the adapters' loadBook *)

\* openFile up to `await window.electronAPI.selectFile()`
OpenFile ==
    /\ ~DialogOpen
    /\ Len(tasks) < MaxTasks
    /\ loadingOverlay' = TRUE
    /\ tasks' = Append(tasks, Task("open", "select", 0, 0, "open"))
    /\ UNCHANGED <<appVars, handlers, errorShown, chaptersList,
                   documentContainer, docAdapter, window, ret, sumVars>>

\* selectFile resolves with null: showLoading(false); return
SelectCancel(k) ==
    /\ tasks[k].pc = "select"
    /\ loadingOverlay' = FALSE
    /\ tasks' = RemoveAt(tasks, k)
    /\ UNCHANGED <<appVars, handlers, errorShown, chaptersList,
                   documentContainer, docAdapter, window, ret, sumVars>>

\* selectFile resolves with a file of an extension without adapter: the
\* throw is caught in openFile (showError, showLoading(false))
SelectUnsupported(k, f) ==
    /\ tasks[k].pc = "select"
    /\ f.ext \notin {".epub", ".pdf"}
    /\ currentBook' = f
    /\ errorShown' = TRUE
    /\ loadingOverlay' = FALSE
    /\ tasks' = RemoveAt(tasks, k)
    /\ UNCHANGED <<currentChapter, currentPage, totalPages, chapters,
                   isLargeFile, epubHandler, pdfHandler, handlers,
                   chaptersList, documentContainer, docAdapter, window, ret, sumVars>>

\* selectFile resolves with an .epub: loadEpub destroys the adapter in
\* this.epubHandler, creates the new one and calls loadBook, which runs to
\* `await this.loadEpubJs()` or, with the library already in window.ePub,
\* to `await this.book.ready`
SelectEpub(k, f, limit) ==
    /\ tasks[k].pc = "select"
    /\ f.ext = ".epub"
    /\ Len(handlers) < limit
    /\ LET id == Len(handlers) + 1
           cleaned == IF epubHandler # 0
                      THEN [handlers EXCEPT ![epubHandler] = Destroyed(@)]
                      ELSE handlers
           fresh == NewHandler("epub", f.seed)
       IN /\ currentBook' = f
          /\ epubHandler' = id
          /\ IF window.ePub
             THEN /\ handlers' = Append(cleaned, [fresh EXCEPT !.book = TRUE])
                  /\ tasks' = [tasks EXCEPT ![k] = Task("open", "ready", id, 0, "open")]
             ELSE /\ handlers' = Append(cleaned, fresh)
                  /\ tasks' = [tasks EXCEPT ![k] = Task("open", "lib", id, 0, "open")]
    /\ UNCHANGED <<currentChapter, currentPage, totalPages, chapters,
                   isLargeFile, pdfHandler, domVars, docAdapter, window, ret, sumVars>>

\* selectFile resolves with a .pdf: loadPdf creates the new adapter (no
\* adapter is destroyed) and calls loadBook, which runs to
\* `await this.loadPdfJs()` or to the await on getDocument
SelectPdf(k, f, limit) ==
    /\ tasks[k].pc = "select"
    /\ f.ext = ".pdf"
    /\ Len(handlers) < limit
    /\ LET id == Len(handlers) + 1
           fresh == NewHandler("pdf", f.seed)
       IN /\ currentBook' = f
          /\ pdfHandler' = id
          /\ IF window.pdfjsLib
             THEN /\ handlers' = Append(handlers, [fresh EXCEPT !.lib = TRUE])
                  /\ tasks' = [tasks EXCEPT ![k] = Task("open", "document", id, 0, "open")]
             ELSE /\ handlers' = Append(handlers, fresh)
                  /\ tasks' = [tasks EXCEPT ![k] = Task("open", "lib", id, 0, "open")]
    /\ UNCHANGED <<currentChapter, currentPage, totalPages, chapters,
                   isLargeFile, epubHandler, domVars, docAdapter, window, ret, sumVars>>

\* loadEpubJs / loadPdfJs settles: the library is stored in window and the
\* adapter goes on (this.book = ePub(arrayBuffer), resp. this.pdfjsLib =
\* ...), or the catch of loadBook starts the mock load
LibraryResolve(k, ok) ==
    /\ tasks[k].pc = "lib"
    /\ LET id == tasks[k].h
           kind == handlers[id].kind
       IN IF ok
          THEN /\ window' = IF kind = "epub" THEN [window EXCEPT !.ePub = TRUE]
                            ELSE [window EXCEPT !.pdfjsLib = TRUE]
               /\ handlers' = IF kind = "epub"
                              THEN [handlers EXCEPT ![id].book = TRUE]
                              ELSE [handlers EXCEPT ![id].lib = TRUE]
               /\ tasks' = [tasks EXCEPT ![k].pc =
                               IF kind = "epub" THEN "ready" ELSE "document"]
          ELSE /\ tasks' = [tasks EXCEPT ![k].pc = "mock"]
               /\ UNCHANGED <<window, handlers>>
    /\ UNCHANGED <<appVars, domVars, docAdapter, ret, sumVars>>

\* updateUI followed by showLoading(false): the end of a successful open
OpenDone(k, chs, cc, large) ==
    /\ chaptersList' = UpdateChaptersList(chs, cc, large)
    /\ loadingOverlay' = FALSE
    /\ errorShown' = FALSE
    /\ tasks' = RemoveAt(tasks, k)

\* the catch of openFile: showError, showLoading(false)
OpenFailed(k) ==
    /\ errorShown' = TRUE
    /\ loadingOverlay' = FALSE
    /\ tasks' = RemoveAt(tasks, k)
    /\ UNCHANGED chaptersList

\* loadEpub / loadPdf from the return of loadBook: the descriptor replaces
\* the session's, the first unit is rendered, and openFile either suspends
\* on that render, fails on its range check, or finishes
Loaded(k, hs, id, bookData, target, large) ==
    /\ handlers' = hs
    /\ chapters' = bookData.chapters
    /\ totalPages' = bookData.totalPages
    /\ currentChapter' = 0
    /\ currentPage' = 1
    /\ isLargeFile' = large
    /\ docAdapter' = id
    /\ LET res == RenderResult(hs, target)
       IN CASE res = "throw" ->
                 OpenFailed(k) /\ UNCHANGED documentContainer
            [] res = "suspend" ->
                 /\ tasks' = [tasks EXCEPT ![k] =
                        Task("open", "render", target.h, target.unit, "open")]
                 /\ UNCHANGED domVars
            [] res = "done" ->
                 /\ documentContainer' = target
                 /\ OpenDone(k, bookData.chapters, 0, large)
            [] OTHER ->
                 /\ UNCHANGED documentContainer
                 /\ OpenDone(k, bookData.chapters, 0, large)
    /\ UNCHANGED <<currentBook, epubHandler, pdfHandler, window, ret, sumVars>>

\* extractChaptersLazy with the mock chapters in its catch branch
ExtractChaptersLazyToMock(navOk, tocLen, spineLen) ==
    IF ~navOk THEN MockEpubChapters
    ELSE IF tocLen > 0 THEN TocChapters(tocLen)
    ELSE SpineChapters(spineLen)

\* the chapter list extractChaptersLazy builds from what the container
\* holds: tocLen entries in the table of contents, else spineLen spine
\* items; navOk = FALSE when reading either fails
ExtractChaptersLazy(navOk, tocLen, spineLen) ==
    IF ~navOk THEN FallbackChapters
    ELSE IF tocLen > 0 THEN TocChapters(tocLen)
    ELSE SpineChapters(spineLen)

\* the descriptor EpubHandler.loadBook returns on the real path
EpubBookData(chs) ==
    LET estimatedPages == EstimateTotalPages(TRUE, Len(chs))
    IN [chapters |-> chs, totalPages |-> estimatedPages,
        isLargeFile |-> (Len(chs) > 50 \/ estimatedPages > 500)]

\* `await this.book.ready` settles.  The awaits behind it (metadata,
\* navigation, spine) wait on parts of the same readiness and resume
\* without another event in between.  A book destroyed meanwhile makes
\* this.book.loaded throw; that and a rejection go to the mock load.
EpubReadyResolve(k, ok, navOk, tocLen, spineLen) ==
    /\ tasks[k].pc = "ready"
    /\ handlers[tasks[k].h].kind = "epub"
    /\ LET id == tasks[k].h
       IN IF ok /\ handlers[id].book
          THEN LET chs == ExtractChaptersLazy(navOk, tocLen, spineLen)
                   bookData == EpubBookData(chs)
                   hs == [handlers EXCEPT ![id].chapters = chs]
               IN Loaded(k, hs, id, bookData,
                         ChapterTarget(epubHandler, chs, 0),
                         bookData.isLargeFile)
          ELSE /\ tasks' = [tasks EXCEPT ![k].pc = "mock"]
               /\ UNCHANGED <<appVars, handlers, domVars, docAdapter,
                              window, ret, sumVars>>

\* the getDocument promise settles: the adapter takes numPages and builds
\* its chapters (getDocumentInfo never throws), or the mock load starts
PdfDocumentResolve(k, ok, numPages) ==
    /\ tasks[k].pc = "document"
    /\ LET id == tasks[k].h
       IN IF ok
          THEN LET chs == CreateChaptersFromPages(numPages)
                   bookData == [chapters |-> chs, totalPages |-> numPages]
                   hs == [handlers EXCEPT ![id].book = TRUE,
                                          ![id].totalPages = numPages]
               IN Loaded(k, hs, id, bookData, PageTarget(pdfHandler, 1),
                         isLargeFile)
          ELSE /\ tasks' = [tasks EXCEPT ![k].pc = "mock"]
               /\ UNCHANGED <<appVars, handlers, domVars, docAdapter,
                              window, ret, sumVars>>

\* the timer of mockLoadBook / mockLoadPdf fires: the adapter returns the
\* synthetic descriptor (mockLoadBook's has no isLargeFile)
MockResolve(k) ==
    /\ tasks[k].pc = "mock"
    /\ LET id == tasks[k].h
       IN IF handlers[id].kind = "epub"
          THEN Loaded(k, [handlers EXCEPT ![id].chapters = MockEpubChapters],
                      id,
                      [chapters |-> MockEpubChapters,
                       totalPages |-> SumPageCount(MockEpubChapters)],
                      ChapterTarget(epubHandler, MockEpubChapters, 0),
                      FALSE)
          ELSE Loaded(k, [handlers EXCEPT ![id].totalPages = MockPdfPages],
                      id,
                      [chapters |-> MockPdfChapters,
                       totalPages |-> MockPdfPages],
                      PageTarget(pdfHandler, 1),
                      isLargeFile)

\* the render awaited by loadEpub / loadPdf returns: the content is shown,
\* then updateUI and showLoading(false)
OpenRenderResolve(k) ==
    /\ tasks[k].kind = "open"
    /\ tasks[k].pc = "render"
    /\ documentContainer' = [h |-> tasks[k].h, unit |-> tasks[k].unit]
    /\ OpenDone(k, chapters, currentChapter, isLargeFile)
    /\ UNCHANGED <<appVars, handlers, docAdapter, window, ret, sumVars>>

----------------------------------------------------------------------------
(* Navigation *)

\* The common tail of the navigation methods after their assignments:
\* renderCurrentContent, then (goToChapter only) updateChaptersList, then
\* updateNavigation.  A render that throws ends the method before the
\* list is rebuilt; a render that waits for the library suspends it.
Navigate(cc, cp, cont) ==
    /\ currentChapter' = cc
    /\ currentPage' = cp
    /\ LET target == RenderTarget(currentBook, epubHandler, pdfHandler,
                                  chapters, cc, cp)
           res == RenderResult(handlers, target)
           list == IF cont = "chapter"
                   THEN UpdateChaptersList(chapters, cc, isLargeFile)
                   ELSE chaptersList
       IN CASE res = "throw" -> UNCHANGED <<tasks, domVars>>
            [] res = "suspend" ->
                 /\ Len(tasks) < MaxTasks
                 /\ tasks' = Append(tasks,
                        Task("nav", "render", target.h, target.unit, cont))
                 /\ UNCHANGED domVars
            [] res = "done" ->
                 /\ documentContainer' = target
                 /\ chaptersList' = list
                 /\ UNCHANGED <<tasks, loadingOverlay, errorShown>>
            [] OTHER ->
                 /\ chaptersList' = list
                 /\ UNCHANGED <<tasks, loadingOverlay, errorShown,
                                documentContainer>>
    /\ UNCHANGED <<currentBook, totalPages, chapters, isLargeFile,
                   epubHandler, pdfHandler, handlers, docAdapter, window, ret, sumVars>>

\* EpubizonApp.previousPage (button, ArrowLeft, Shift+Space)
PreviousPage ==
    /\ ~DialogOpen
    /\ currentPage > 1
    /\ Navigate(currentChapter, currentPage - 1, "page")

\* EpubizonApp.nextPage (button, ArrowRight, Space)
NextPage ==
    /\ ~DialogOpen
    /\ currentPage < totalPages
    /\ Navigate(currentChapter, currentPage + 1, "page")

\* EpubizonApp.previousChapter (ArrowDown)
PreviousChapter ==
    /\ ~DialogOpen
    /\ currentChapter > 0
    /\ Navigate(currentChapter - 1,
                GoToChapterPage(chapters, currentChapter - 1, currentPage),
                "chapter")

\* EpubizonApp.nextChapter (ArrowUp)
NextChapter ==
    /\ ~DialogOpen
    /\ currentChapter < Len(chapters) - 1
    /\ Navigate(currentChapter + 1,
                GoToChapterPage(chapters, currentChapter + 1, currentPage),
                "chapter")

\* EpubizonApp.goToChapter from a click on a displayed chapter entry
GoToChapter(chapterIndex) ==
    /\ ~DialogOpen
    /\ chapterIndex \in Displayed(chaptersList)
    /\ chapterIndex >= 0 /\ chapterIndex < Len(chapters)
    /\ Navigate(chapterIndex,
                GoToChapterPage(chapters, chapterIndex, currentPage),
                "chapter")

\* the render awaited by a navigation method returns: the content is
\* shown, goToChapter rebuilds the chapter list
NavRenderResolve(k) ==
    /\ tasks[k].kind = "nav"
    /\ documentContainer' = [h |-> tasks[k].h, unit |-> tasks[k].unit]
    /\ chaptersList' = IF tasks[k].cont = "chapter"
                       THEN UpdateChaptersList(chapters, currentChapter,
                                               isLargeFile)
                       ELSE chaptersList
    /\ tasks' = RemoveAt(tasks, k)
    /\ UNCHANGED <<appVars, handlers, loadingOverlay, errorShown,
                   docAdapter, window, ret, sumVars>>

\* click on the "chapters before" element of the displayed list
JumpBefore ==
    /\ ~DialogOpen
    /\ chaptersList.before # <<>>
    /\ chaptersList' = ShowChapterRange(chapters, currentChapter,
                           chaptersList.before[1], chaptersList.before[2])
    /\ UNCHANGED <<appVars, handlers, tasks, loadingOverlay, errorShown,
                   documentContainer, docAdapter, window, ret, sumVars>>

\* click on the "chapters after" element of the displayed list
JumpAfter ==
    /\ ~DialogOpen
    /\ chaptersList.after # <<>>
    /\ chaptersList' = ShowChapterRange(chapters, currentChapter,
                           chaptersList.after[1], chaptersList.after[2])
    /\ UNCHANGED <<appVars, handlers, tasks, loadingOverlay, errorShown,
                   documentContainer, docAdapter, window, ret, sumVars>>

----------------------------------------------------------------------------
(* The text getters and destroy, called on an adapter *)

Result(tick, h, unit, status, text) ==
    [tick |-> tick, h |-> h, unit |-> unit, status |-> status, text |-> text]

\* the units the getters are called with: around both ends of the range
Probes(h) ==
    LET upper == IF h.kind = "epub" THEN Len(h.chapters) - 1
                 ELSE h.totalPages
    IN (-1..MaxUnit) \cup {upper, upper + 1}

\* getChapterText / getPageText up to its first library await: the range
\* check throws, the cache answers, the library is asked (the call
\* suspends), or the fallback text is stored and returned at once
GetUnitText(id, i) ==
    /\ handlers[id].kind # "none"
    /\ i \in Probes(handlers[id])
    /\ LET h == handlers[id]
       IN IF ~UnitInRange(h, i)
          THEN /\ ret' = Result(~ret.tick, id, i, "throw", NoText)
               /\ UNCHANGED <<handlers, tasks>>
          ELSE IF i \in DOMAIN h.textContent
          THEN /\ ret' = Result(~ret.tick, id, i, "hit", h.textContent[i])
               /\ UNCHANGED <<handlers, tasks>>
          ELSE IF UsesLibrary(h, i)
          THEN /\ Len(tasks) < MaxTasks
               /\ tasks' = Append(tasks,
                      [Task("text", "extract", id, i, "text") EXCEPT
                          !.title = IF h.kind = "epub"
                                    THEN h.chapters[i + 1].title ELSE <<>>])
               /\ ret' = Result(~ret.tick, id, i, "pending", NoText)
               /\ UNCHANGED handlers
          ELSE /\ handlers' = [handlers EXCEPT
                                  ![id] = CacheText(h, i, FallbackText(h, i))]
               /\ ret' = Result(~ret.tick, id, i, "miss", FallbackText(h, i))
               /\ UNCHANGED tasks
    /\ UNCHANGED <<appVars, domVars, docAdapter, window, sumVars>>

\* the text a suspended getter call ends with, given what the library did.
\* The EPUB getter keeps the chapter it read before the await.
ExtractedText(h, task, outcome) ==
    IF h.kind = "epub"
    THEN EpubExtract(task.title, outcome)
    ELSE PdfExtract(h.seed, task.unit, outcome)

\* the library calls of a suspended getter settle: the text (real or
\* fallback) is stored in the cache and returned
ExtractResolve(k, outcome) ==
    /\ tasks[k].kind = "text"
    /\ LET id == tasks[k].h
           h == handlers[id]
           i == tasks[k].unit
       IN /\ outcome \in (IF h.kind = "epub" THEN EpubOutcomes ELSE PdfOutcomes)
          /\ LET text == ExtractedText(h, tasks[k], outcome)
             IN /\ handlers' = [handlers EXCEPT ![id] = CacheText(h, i, text)]
                /\ ret' = Result(ret.tick, id, i, "miss", text)
    /\ tasks' = RemoveAt(tasks, k)
    /\ UNCHANGED <<appVars, domVars, docAdapter, window, sumVars>>

\* EpubHandler.destroy / PdfHandler.destroy called on an adapter
DestroyAdapter(id) ==
    /\ handlers[id].kind # "none"
    /\ handlers' = [handlers EXCEPT ![id] = Destroyed(@)]
    /\ ret' = Result(ret.tick, id, 0, "destroyed", NoText)
    /\ UNCHANGED <<appVars, tasks, domVars, docAdapter, window, sumVars>>

----------------------------------------------------------------------------
(* renderChapter / renderPage called on an adapter *)

\* number of img elements with an EPUB-internal src in unit i of the
\* document with the given bytes
ImagesOf(seed, i) == (seed * (i + 1)) % 3

\* loadImageFromEpub / processImagesFromManifest: n images were loaded,
\* each got a fresh blob URL that is added to this.imageBlobUrls
TrackImages(h, n) ==
    [h EXCEPT !.imageBlobUrls = @ \cup ((h.blobCount + 1)..(h.blobCount + n)),
              !.blobCount = @ + n]

\* mockRenderChapter / mockRenderPage
Placeholder(i) == <<"placeholder", i>>

\* Outcomes of the library calls of one render
RenderOutcomes == {"content", "error"}

\* the render methods without their try/catch
RenderStatusUncaught(outcome) ==
    IF outcome = "error" THEN "throw" ELSE "rendered"

\* how a render call that passed the range check ends: the library error
\* is caught and the method goes on to the placeholder
RenderStatus(outcome) == "rendered"

\* what a render call that passed the range check returns
RenderContent(i, outcome, loaded) ==
    IF outcome = "content" THEN <<"content", i, loaded>> ELSE Placeholder(i)

\* renderChapter / renderPage up to its first library await: the range
\* check throws, the library is asked (the call suspends), or the
\* placeholder is returned at once
RenderUnit(id, i) ==
    /\ handlers[id].kind # "none"
    /\ i \in Probes(handlers[id])
    /\ LET h == handlers[id]
       IN IF ~UnitInRange(h, i)
          THEN /\ ret' = Result(~ret.tick, id, i, "throw", NoText)
               /\ UNCHANGED tasks
          ELSE IF UsesLibrary(h, i)
          THEN /\ Len(tasks) < MaxTasks
               /\ h.blobCount + ImagesOf(h.seed, i) <= MaxBlobs
               /\ tasks' = Append(tasks, Task("render", "library", id, i, "render"))
               /\ ret' = Result(~ret.tick, id, i, "pending", NoText)
          ELSE /\ ret' = Result(~ret.tick, id, i, RenderStatus("error"),
                                RenderContent(i, "error", 0))
               /\ UNCHANGED tasks
    /\ UNCHANGED <<appVars, handlers, domVars, docAdapter, window, sumVars>>

\* the library calls of a suspended render settle.  With content, the
\* EPUB adapter loads `loaded` of the unit's images while it still holds
\* its book; with an error it returns the placeholder and keeps its state.
RenderResolve(k, outcome, loaded) ==
    /\ tasks[k].kind = "render"
    /\ outcome \in RenderOutcomes
    /\ LET id == tasks[k].h
           h == handlers[id]
           i == tasks[k].unit
       IN /\ loaded <= (IF outcome = "content" /\ h.kind = "epub" /\ h.book
                        THEN ImagesOf(h.seed, i) ELSE 0)
          /\ handlers' = [handlers EXCEPT ![id] = TrackImages(h, loaded)]
          /\ ret' = Result(ret.tick, id, i, RenderStatus(outcome),
                           RenderContent(i, outcome, loaded))
    /\ tasks' = RemoveAt(tasks, k)
    /\ UNCHANGED <<appVars, domVars, docAdapter, window, sumVars>>

\* the library calls of a suspended render return the content of a unit
\* with images while the EPUB adapter holds its book: processImage runs
\* loadImageFromEpub for the first image, which passes `if (!this.book)`
\* and suspends at `await this.book.load(...)`
RenderImages(k) ==
    /\ tasks[k].kind = "render"
    /\ tasks[k].pc = "library"
    /\ LET h == handlers[tasks[k].h]
       IN /\ h.kind = "epub" /\ h.book
          /\ ImagesOf(h.seed, tasks[k].unit) > 0
    /\ tasks' = [tasks EXCEPT ![k].pc = "image"]
    /\ UNCHANGED <<appVars, handlers, domVars, docAdapter, window, ret,
                   sumVars>>

\* book.load of the first image settles.  With data the blob URL is
\* created and added to this.imageBlobUrls, whatever happened to the
\* adapter during the await; the images after it are loaded (`rest` of
\* them) only if loadImageFromEpub still finds this.book.
ImageResolve(k, ok, rest) ==
    /\ tasks[k].kind = "render"
    /\ tasks[k].pc = "image"
    /\ LET id == tasks[k].h
           h == handlers[id]
           i == tasks[k].unit
           first == IF ok THEN 1 ELSE 0
       IN /\ rest <= (IF h.book THEN ImagesOf(h.seed, i) - 1 ELSE 0)
          /\ handlers' = [handlers EXCEPT ![id] = TrackImages(h, first + rest)]
          /\ ret' = Result(ret.tick, id, i, RenderStatus("content"),
                           RenderContent(i, "content", first + rest))
    /\ tasks' = RemoveAt(tasks, k)
    /\ UNCHANGED <<appVars, domVars, docAdapter, window, sumVars>>

----------------------------------------------------------------------------
(* loadImageFromEpub.  The ways to locate an image are named "manifest"   *)
(* (a manifest entry with the file name of the src), "exact" (the src as  *)
(* written), "relative" (the src under the directory of the chapter),     *)
(* "stripped" (the src without its leading ../, alone and under the       *)
(* directory of the chapter) and "dirs" (the file name under the          *)
(* conventional image directories).                                       *)

Strategies == {"manifest", "exact", "relative", "stripped", "dirs"}

\* the shapes of a src that resolveImagePaths tells apart
PathKinds == {"plain", "parent", "absolute"}

\* EpubHandler.resolveImagePaths: the candidates in the order they are
\* tried
ResolveImagePaths(pathKind, hasSection) ==
    <<"exact">>
    \o (IF hasSection /\ pathKind = "plain" THEN <<"relative">> ELSE <<>>)
    \o (IF hasSection /\ pathKind = "parent" THEN <<"stripped">> ELSE <<>>)
    \o <<"dirs">>

\* the first candidate of paths that loads, "null" if none does
FirstLoadable(paths, loadable) ==
    LET hits == {j \in 1..Len(paths) : paths[j] \in loadable}
    IN IF hits = {} THEN "null"
       ELSE paths[CHOOSE j \in hits : \A l \in hits : j <= l]

\* EpubHandler.loadImageFromEpub: which way gave the image, given the ways
\* whose load would succeed
LoadImageFromEpub(h, pathKind, hasSection, loadable) ==
    IF ~h.book THEN "null"
    ELSE IF "manifest" \in loadable THEN "manifest"
    ELSE FirstLoadable(ResolveImagePaths(pathKind, hasSection), loadable)

\* loadImageFromEpub called on an adapter for one image
LoadImage(id, pathKind, hasSection, loadable) ==
    /\ handlers[id].kind = "epub"
    /\ LET h == handlers[id]
           used == LoadImageFromEpub(h, pathKind, hasSection, loadable)
       IN /\ h.blobCount < MaxBlobs
          /\ handlers' = [handlers EXCEPT ![id] =
                             IF used = "null" THEN h ELSE TrackImages(h, 1)]
          /\ ret' = Result(ret.tick, id, 0, "image",
                           [used |-> used, loadable |-> loadable,
                            pathKind |-> pathKind, hasSection |-> hasSection])
    /\ UNCHANGED <<appVars, tasks, domVars, docAdapter, window, sumVars>>

----------------------------------------------------------------------------
(* Values at start-up *)

NoResult == Result(FALSE, 0, 0, "none", NoText)

\* what get-settings returns at start-up: userSettings with the empty key
StoredSettings == [openaiApiKey |-> <<>>]

\* this.settings = {} after a failed getSettings
NoSettings == [x \in {} |-> <<>>]

\* #summaryPanel hidden, nothing in #summaryText
NoSummary == [shown |-> FALSE, loading |-> FALSE, text |-> <<>>]

----------------------------------------------------------------------------
(* Settings and summaries.  A summary runs as a task: "sumtext" while it   *)
(* awaits the adapter's text getter, "api" while the main process awaits   *)
(* the completion of the collaborator, "reply" while the answer of a main  *)
(* process that refused the request travels back.                          *)

\* what the user may have typed in #openaiKey when pressing Save
KeyInputs == {<<>>, <<" ">>, <<"k">>, <<" ", "k", " ">>}

\* the value of a property that is not there
Undefined == <<"undefined">>

\* this.settings.openaiApiKey
KeyOf(s) == IF "openaiApiKey" \in DOMAIN s THEN s.openaiApiKey ELSE Undefined

\* a generateSummary without the check of the key
HasKeyAlways(s) == TRUE

\* the first check of generateSummary: this.settings.openaiApiKey is truthy
HasKey(s) == KeyOf(s) # Undefined /\ KeyOf(s) # <<>>

\* the check of the main process: !apiKey || apiKey.trim() === ''
KeyRefused(apiKey) == apiKey = Undefined \/ Trim(apiKey) = <<>>

\* a suspended generateSummary: title is the adapter's chapter title the
\* getter works with, heading what currentChapterData holds, text the
\* extracted text and apiKey the key of the request (both once sent)
SummaryTask(pc, h, unit, title, heading, text, apiKey) ==
    [kind |-> "summary", pc |-> pc, h |-> h, unit |-> unit,
     cont |-> "summary", title |-> title, heading |-> heading,
     text |-> text, apiKey |-> apiKey]

\* window.electronAPI.generateSummary({text, apiKey}) with the key read at
\* that moment: the main process starts the completion, or refuses
Sent(h, unit, heading, text) ==
    LET apiKey == KeyOf(settings)
    IN SummaryTask(IF KeyRefused(apiKey) THEN "reply" ELSE "api",
                   h, unit, <<>>, heading, text, apiKey)

\* the adapter and unit generateSummary asks the text of
SummaryTarget ==
    IF currentBook.ext = ".epub" /\ epubHandler # 0
    THEN [h |-> epubHandler, unit |-> currentChapter]
    ELSE IF currentBook.ext = ".pdf" /\ pdfHandler # 0
    THEN [h |-> pdfHandler, unit |-> currentPage]
    ELSE NoContent

\* this.chapters[this.currentChapter].title
Heading ==
    IF currentChapter + 1 \in DOMAIN chapters
    THEN chapters[currentChapter + 1].title ELSE Undefined

\* the summary panel with the loading indicator hidden and a text
PanelText(text) == [summaryPanel EXCEPT !.loading = FALSE, !.text = text]

\* EpubizonApp.openSettings (settings button)
OpenSettings ==
    /\ ~DialogOpen
    /\ ~settingsModal
    /\ settingsModal' = TRUE
    /\ UNCHANGED <<appVars, handlers, tasks, domVars, docAdapter, window,
                   ret, settings, summaryPanel>>

\* EpubizonApp.closeSettings (close button, cancel button, Escape)
CloseSettings ==
    /\ ~DialogOpen
    /\ settingsModal
    /\ settingsModal' = FALSE
    /\ UNCHANGED <<appVars, handlers, tasks, domVars, docAdapter, window,
                   ret, settings, summaryPanel>>

\* EpubizonApp.saveSettings with its await of the save-settings call: the
\* trimmed input becomes the key; the dialog closes when the call returns
SaveSettings(input, ok) ==
    /\ ~DialogOpen
    /\ settingsModal
    /\ settings' = Put(settings, "openaiApiKey", Trim(input))
    /\ settingsModal' = ~ok
    /\ UNCHANGED <<appVars, handlers, tasks, domVars, docAdapter, window,
                   ret, summaryPanel>>

\* EpubizonApp.closeSummary (close button, Escape)
CloseSummary ==
    /\ ~DialogOpen
    /\ summaryPanel.shown
    /\ summaryPanel' = [summaryPanel EXCEPT !.shown = FALSE]
    /\ UNCHANGED <<appVars, handlers, tasks, domVars, docAdapter, window,
                   ret, settings, settingsModal>>

\* EpubizonApp.generateSummary up to its first await that waits for an
\* event: the key check, the document check, the panel, and the text
\* getter of the adapter (range check, cache, library or fallback text)
GenerateSummary ==
    /\ ~DialogOpen
    /\ IF ~HasKey(settings)
       THEN /\ settingsModal' = TRUE
            /\ UNCHANGED <<handlers, tasks, summaryPanel>>
       ELSE IF currentBook = NoBook \/ chapters = <<>>
       THEN UNCHANGED <<handlers, tasks, settingsModal, summaryPanel>>
       ELSE LET target == SummaryTarget
                id == target.h
                i == target.unit
                shown == [shown |-> TRUE, loading |-> TRUE, text |-> <<>>]
            IN /\ settingsModal' = settingsModal
               /\ IF id = 0
                  THEN /\ Len(tasks) < MaxTasks
                       /\ tasks' = Append(tasks, Sent(0, 0, Heading, <<>>))
                       /\ summaryPanel' = shown
                       /\ UNCHANGED handlers
                  ELSE IF ~UnitInRange(handlers[id], i)
                  THEN /\ summaryPanel' = [shown |-> TRUE, loading |-> FALSE,
                                           text |-> <<"error">>]
                       /\ UNCHANGED <<handlers, tasks>>
                  ELSE IF i \in DOMAIN handlers[id].textContent
                  THEN /\ Len(tasks) < MaxTasks
                       /\ tasks' = Append(tasks,
                              Sent(id, i, Heading, handlers[id].textContent[i]))
                       /\ summaryPanel' = shown
                       /\ UNCHANGED handlers
                  ELSE IF UsesLibrary(handlers[id], i)
                  THEN /\ Len(tasks) < MaxTasks
                       /\ tasks' = Append(tasks,
                              SummaryTask("sumtext", id, i,
                                  IF handlers[id].kind = "epub"
                                  THEN handlers[id].chapters[i + 1].title
                                  ELSE <<>>,
                                  Heading, <<>>, <<>>))
                       /\ summaryPanel' = shown
                       /\ UNCHANGED handlers
                  ELSE /\ Len(tasks) < MaxTasks
                       /\ handlers' = [handlers EXCEPT ![id] =
                             CacheText(@, i, FallbackText(handlers[id], i))]
                       /\ tasks' = Append(tasks,
                              Sent(id, i, Heading,
                                   FallbackText(handlers[id], i)))
                       /\ summaryPanel' = shown
    /\ UNCHANGED <<appVars, domVars, docAdapter, window, ret, settings>>

\* the text getter awaited by generateSummary returns: the adapter stores
\* the text, and the request is sent with the key the settings hold now
SummaryTextResolve(k, outcome) ==
    /\ tasks[k].kind = "summary"
    /\ tasks[k].pc = "sumtext"
    /\ LET id == tasks[k].h
           h == handlers[id]
           i == tasks[k].unit
       IN /\ outcome \in (IF h.kind = "epub" THEN EpubOutcomes ELSE PdfOutcomes)
          /\ LET text == ExtractedText(h, tasks[k], outcome)
             IN /\ handlers' = [handlers EXCEPT ![id] = CacheText(h, i, text)]
                /\ tasks' = [tasks EXCEPT ![k] =
                                Sent(id, i, tasks[k].heading, text)]
    /\ UNCHANGED <<appVars, domVars, docAdapter, window, ret, sumVars>>

\* Outcomes of window.electronAPI.generateSummary
SummaryResults == {"success", "failure", "exception"}

\* what generateSummary writes into #summaryText
SummaryText(task, result) ==
    CASE result = "success" /\ task.heading # Undefined ->
            <<"summary", task.heading>>
      [] result = "failure" -> <<"failed">>
      [] OTHER -> <<"error">>

\* a generateSummary that goes back to the first page when it is done
SummaryReplyToFirstPage(k, result) ==
    /\ tasks[k].kind = "summary"
    /\ tasks[k].pc \in {"api", "reply"}
    /\ result \in SummaryResults
    /\ tasks[k].pc = "reply" => result = "failure"
    /\ summaryPanel' = PanelText(SummaryText(tasks[k], result))
    /\ tasks' = RemoveAt(tasks, k)
    /\ currentPage' = 1
    /\ UNCHANGED <<currentBook, currentChapter, totalPages, chapters,
                   isLargeFile, epubHandler, pdfHandler, handlers, domVars,
                   docAdapter, window, ret, settings, settingsModal>>

\* the answer of the main process arrives: the loading indicator is
\* hidden and the summary or the error is written into the panel
SummaryReply(k, result) ==
    /\ tasks[k].kind = "summary"
    /\ tasks[k].pc \in {"api", "reply"}
    /\ result \in SummaryResults
    /\ tasks[k].pc = "reply" => result = "failure"
    /\ summaryPanel' = PanelText(SummaryText(tasks[k], result))
    /\ tasks' = RemoveAt(tasks, k)
    /\ UNCHANGED <<appVars, handlers, domVars, docAdapter, window, ret,
                   settings, settingsModal>>

----------------------------------------------------------------------------
(* extractExcerpt.  A string is a sequence of UTF-16 code units; "Idot" is *)
(* U+0130, the one code unit String.prototype.toLowerCase turns into two   *)
(* ("i" and the combining dot U+0307).                                     *)

\* toLowerCase of one code unit
LowerUnit(c) ==
    CASE c = "A" -> <<"a">>
      [] c = "E" -> <<"e">>
      [] c = "N" -> <<"n">>
      [] c = "Idot" -> <<"i", "dot">>
      [] OTHER -> <<c>>

\* String.prototype.toLowerCase
RECURSIVE ToLowerCase(_)
ToLowerCase(str) ==
    IF str = <<>> THEN <<>>
    ELSE IF Len(str) = 1 THEN LowerUnit(str[1])
    ELSE LET half == Len(str) \div 2
         IN ToLowerCase(SubSeq(str, 1, half))
            \o ToLowerCase(SubSeq(str, half + 1, Len(str)))

\* String.prototype.indexOf: the first position (from 0) or -1
IndexOf(str, search) ==
    LET hits == {i \in 0..(Len(str) - Len(search)) :
                    SubSeq(str, i + 1, i + Len(search)) = search}
    IN IF hits = {} THEN -1
       ELSE CHOOSE i \in hits : \A j \in hits : i <= j

\* String.prototype.substring for 0 <= start <= end <= length
Substring(str, start, end) == SubSeq(str, start + 1, end)

Ellipsis == <<".", ".", ".">>

ContextLength == 100

\* EpubHandler.extractExcerpt / PdfHandler.extractExcerpt with the default
\* contextLength
ExtractExcerpt(text, query) ==
    LET index == IndexOf(ToLowerCase(text), ToLowerCase(query))
    IN IF index = -1 THEN <<>>
       ELSE LET start == Max(0, index - ContextLength)
                end == Min(Len(text), index + Len(query) + ContextLength)
            IN (IF start > 0 THEN Ellipsis ELSE <<>>)
               \o Substring(text, start, end)
               \o (IF end < Len(text) THEN Ellipsis ELSE <<>>)

\* n copies of the code unit c
Repeat(c, n) == [j \in 1..n |-> c]

\* extractExcerpt called on an adapter (search calls it for every unit
\* whose text holds the query)
Excerpt(id, text, query) ==
    /\ handlers[id].kind # "none"
    /\ ret' = Result(ret.tick, id, 0, "excerpt",
                     [text |-> text, query |-> query,
                      excerpt |-> ExtractExcerpt(text, query)])
    /\ UNCHANGED <<appVars, handlers, tasks, domVars, docAdapter, window,
                   sumVars>>

----------------------------------------------------------------------------
(* The keyboard.  A key press carries its code, its modifier and whether   *)
(* the active element is a text input (the input of the settings dialog).  *)

\* the keys of handledKeys, and one that is not in the list
KeyCodes == {"ArrowLeft", "ArrowRight", "ArrowUp", "ArrowDown", "KeyS",
             "Escape", "Enter", "Space", "KeyA"}

HandledKeys == KeyCodes \ {"KeyA"}

Modifiers == {"none", "ctrl", "shift"}

\* KeyboardHandler.shouldHandleKey
ShouldHandleKey(code, focus) ==
    /\ ~focus
    /\ settingsModal => code = "Escape"
    /\ code \in HandledKeys

\* KeyboardHandler.isModalOpen
IsModalOpen == settingsModal \/ summaryPanel.shown

\* the keydown listener returns without calling handleKeyPress
Suppressed(code) ==
    /\ ret' = Result(ret.tick, 0, 0, "suppressed", <<code>>)
    /\ UNCHANGED <<appVars, handlers, tasks, domVars, docAdapter, window,
                   sumVars>>

\* KeyboardHandler.handleEscape
HandleEscape ==
    IF settingsModal THEN CloseSettings ELSE CloseSummary

\* the keydown listener with handleKeyPress and the handler of the key
KeyPress(code, mod, focus) ==
    /\ ~DialogOpen
    /\ focus => settingsModal
    /\ IF ~ShouldHandleKey(code, focus) THEN Suppressed(code)
       ELSE CASE code = "ArrowLeft" -> currentBook # NoBook /\ PreviousPage
              [] code = "ArrowRight" -> currentBook # NoBook /\ NextPage
              [] code = "ArrowUp" -> currentBook # NoBook /\ NextChapter
              [] code = "ArrowDown" -> currentBook # NoBook /\ PreviousChapter
              [] code = "KeyS" ->
                   /\ mod # "ctrl"
                   /\ currentBook # NoBook
                   /\ ~IsModalOpen
                   /\ GenerateSummary
              [] code = "Escape" -> HandleEscape
              [] code = "Enter" -> mod = "ctrl" /\ ~IsModalOpen /\ OpenFile
              [] OTHER ->
                   /\ ~IsModalOpen
                   /\ currentBook # NoBook
                   /\ IF mod = "shift" THEN PreviousPage ELSE NextPage

----------------------------------------------------------------------------
(* Specification of the session: files are opened and navigated *)

Init ==
    /\ currentBook = NoBook
    /\ currentChapter = 0
    /\ currentPage = 0
    /\ totalPages = 0
    /\ chapters = <<>>
    /\ isLargeFile = FALSE
    /\ epubHandler = 0
    /\ pdfHandler = 0
    /\ handlers = <<>>
    /\ tasks = <<>>
    /\ loadingOverlay = FALSE
    /\ errorShown = FALSE
    /\ chaptersList = NoList
    /\ documentContainer = NoContent
    /\ docAdapter = 0
    /\ window = [ePub |-> FALSE, pdfjsLib |-> FALSE]
    /\ ret = NoResult
    /\ settings = StoredSettings
    /\ settingsModal = FALSE
    /\ summaryPanel = NoSummary

TaskIds == 1..Len(tasks)

\* no call is suspended: the previous event has been handled to its end
Idle == tasks = <<>>

\* Session with overlapping events, the libraries loading and parsing
\* without failure (a failed navigation read and a book destroyed while
\* it loads are included).
Next ==
    \/ OpenFile
    \/ \E k \in TaskIds : SelectCancel(k)
    \/ \E k \in TaskIds, f \in Files : SelectUnsupported(k, f)
    \/ \E k \in TaskIds, f \in Files : SelectEpub(k, f, MaxHandlers)
    \/ \E k \in TaskIds, f \in Files : SelectPdf(k, f, MaxHandlers)
    \/ \E k \in TaskIds : LibraryResolve(k, TRUE)
    \/ \E k \in TaskIds, navOk \in BOOLEAN,
          tocLen \in 0..MaxToc, spineLen \in 0..MaxSpine :
            EpubReadyResolve(k, TRUE, navOk, tocLen, spineLen)
    \/ \E k \in TaskIds, numPages \in 1..MaxPdfPages :
            PdfDocumentResolve(k, TRUE, numPages)
    \/ \E k \in TaskIds : MockResolve(k)
    \/ \E k \in TaskIds : OpenRenderResolve(k)
    \/ PreviousPage
    \/ NextPage
    \/ PreviousChapter
    \/ NextChapter
    \/ \E chapterIndex \in Displayed(chaptersList) : GoToChapter(chapterIndex)
    \/ \E k \in TaskIds : NavRenderResolve(k)

Spec == Init /\ [][Next]_vars

\* Session used one event at a time (the next event arrives when the
\* previous one has been handled), the libraries failing or not.
NextSeq ==
    \/ Idle /\ OpenFile
    \/ \E k \in TaskIds : SelectCancel(k)
    \/ \E k \in TaskIds, f \in Files : SelectUnsupported(k, f)
    \/ \E k \in TaskIds, f \in Files : SelectEpub(k, f, SeqHandlers)
    \/ \E k \in TaskIds, f \in Files : SelectPdf(k, f, SeqHandlers)
    \/ \E k \in TaskIds, ok \in BOOLEAN : LibraryResolve(k, ok)
    \/ \E k \in TaskIds, ok \in BOOLEAN, navOk \in BOOLEAN,
          tocLen \in 0..MaxToc, spineLen \in 0..MaxSpine :
            EpubReadyResolve(k, ok, navOk, tocLen, spineLen)
    \/ \E k \in TaskIds, ok \in BOOLEAN, numPages \in 1..MaxPdfPages :
            PdfDocumentResolve(k, ok, numPages)
    \/ \E k \in TaskIds : MockResolve(k)
    \/ \E k \in TaskIds : OpenRenderResolve(k)
    \/ Idle /\ PreviousPage
    \/ Idle /\ NextPage
    \/ Idle /\ PreviousChapter
    \/ Idle /\ NextChapter
    \/ \E chapterIndex \in Displayed(chaptersList) :
            Idle /\ GoToChapter(chapterIndex)
    \/ \E k \in TaskIds : NavRenderResolve(k)

SpecSeq == Init /\ [][NextSeq]_vars

\* Opening documents one after the other without navigating in them, the
\* libraries and each step of loadBook failing or not.
NextLoad ==
    \/ Idle /\ OpenFile
    \/ \E k \in TaskIds : SelectCancel(k)
    \/ \E k \in TaskIds, f \in Files : SelectUnsupported(k, f)
    \/ \E k \in TaskIds, f \in Files : SelectEpub(k, f, SeqHandlers + 1)
    \/ \E k \in TaskIds, f \in Files : SelectPdf(k, f, SeqHandlers + 1)
    \/ \E k \in TaskIds, ok \in BOOLEAN : LibraryResolve(k, ok)
    \/ \E k \in TaskIds, ok \in BOOLEAN, navOk \in BOOLEAN,
          tocLen \in 0..MaxToc, spineLen \in 0..MaxSpine :
            EpubReadyResolve(k, ok, navOk, tocLen, spineLen)
    \/ \E k \in TaskIds, ok \in BOOLEAN, numPages \in 1..MaxPdfPages :
            PdfDocumentResolve(k, ok, numPages)
    \/ \E k \in TaskIds : MockResolve(k)
    \/ \E k \in TaskIds : OpenRenderResolve(k)

SpecLoad == Init /\ [][NextLoad]_vars

----------------------------------------------------------------------------
(* Sessions with one document loaded: the states openFile ends in when     *)
(* nothing else happens during the load                                    *)

LoadedDoc(h, ext, bookData, large) ==
    [h |-> h, ext |-> ext, bookData |-> bookData, large |-> large]

\* after EpubHandler.loadBook took the real path
EpubLoaded(chs, seed) ==
    LoadedDoc([NewHandler("epub", seed) EXCEPT !.book = TRUE, !.chapters = chs],
              ".epub", EpubBookData(chs), EpubBookData(chs).isLargeFile)

\* after EpubHandler.loadBook fell back to mockLoadBook
EpubDegraded(book, seed) ==
    LoadedDoc([NewHandler("epub", seed) EXCEPT !.book = book,
                                               !.chapters = MockEpubChapters],
              ".epub",
              [chapters |-> MockEpubChapters,
               totalPages |-> SumPageCount(MockEpubChapters)],
              FALSE)

\* after PdfHandler.loadBook took the real path
PdfLoaded(numPages, seed) ==
    LoadedDoc([NewHandler("pdf", seed) EXCEPT !.book = TRUE, !.lib = TRUE,
                                              !.totalPages = numPages],
              ".pdf",
              [chapters |-> CreateChaptersFromPages(numPages),
               totalPages |-> numPages],
              FALSE)

\* after PdfHandler.loadBook fell back to mockLoadPdf
PdfDegraded(lib, seed) ==
    LoadedDoc([NewHandler("pdf", seed) EXCEPT !.lib = lib,
                                              !.totalPages = MockPdfPages],
              ".pdf",
              [chapters |-> MockPdfChapters, totalPages |-> MockPdfPages],
              FALSE)

LoadedState(d) ==
    /\ currentBook = [ext |-> d.ext, seed |-> d.h.seed]
    /\ currentChapter = 0
    /\ currentPage = 1
    /\ totalPages = d.bookData.totalPages
    /\ chapters = d.bookData.chapters
    /\ isLargeFile = d.large
    /\ epubHandler = (IF d.h.kind = "epub" THEN 1 ELSE 0)
    /\ pdfHandler = (IF d.h.kind = "pdf" THEN 1 ELSE 0)
    /\ handlers = <<d.h>>
    /\ tasks = <<>>
    /\ loadingOverlay = FALSE
    /\ errorShown = FALSE
    /\ chaptersList = UpdateChaptersList(d.bookData.chapters, 0, d.large)
    /\ documentContainer =
          (IF d.h.kind = "epub"
           THEN ChapterTarget(1, d.bookData.chapters, 0)
           ELSE PageTarget(1, 1))
    /\ docAdapter = 1
    /\ window = [ePub |-> (d.h.kind = "epub" /\ d.h.book),
                 pdfjsLib |-> (d.h.kind = "pdf" /\ d.h.lib)]
    /\ ret = NoResult

\* the same with the settings as get-settings returned them at start-up
InitLoaded(d) ==
    /\ LoadedState(d)
    /\ settings = StoredSettings
    /\ settingsModal = FALSE
    /\ summaryPanel = NoSummary

----------------------------------------------------------------------------
(* Specification of the text getters: one loaded adapter, its getters      *)
(* called with any probe unit, overlapping, the library failing or not     *)

TextDocs ==
    {EpubLoaded(ExtractChaptersLazy(navOk, tocLen, spineLen), 0) :
        navOk \in BOOLEAN, tocLen \in 0..MaxToc, spineLen \in 0..MaxSpine}
    \cup {EpubDegraded(book, 0) : book \in BOOLEAN}
    \cup {PdfLoaded(numPages, seed) :
             numPages \in 1..MaxPdfPages, seed \in 0..MaxSeed}
    \cup {PdfDegraded(lib, 0) : lib \in BOOLEAN}

InitText == \E d \in TextDocs : InitLoaded(d)

NextText ==
    \/ \E id \in 1..Len(handlers), i \in -1..(MockPdfPages + 1) :
            GetUnitText(id, i)
    \/ \E k \in TaskIds, outcome \in EpubOutcomes \cup PdfOutcomes :
            ExtractResolve(k, outcome)
    \/ \E id \in 1..Len(handlers) : DestroyAdapter(id)

SpecText == InitText /\ [][NextText]_vars

----------------------------------------------------------------------------
(* Specification of one adapter: its render method, its text getter and    *)
(* destroy called in any order, overlapping, the library failing or not    *)

\* one document of each kind: an EPUB with images, a PDF, and the
\* documents of the degraded modes
AdapterDocs ==
    {EpubLoaded(TocChapters(MaxToc), MaxSeed), PdfLoaded(MaxPdfPages, 0)}
    \cup {EpubDegraded(book, 0) : book \in BOOLEAN}
    \cup {PdfDegraded(lib, 0) : lib \in BOOLEAN}

InitAdapter == \E d \in AdapterDocs : InitLoaded(d)

NextAdapter ==
    \/ \E id \in 1..Len(handlers), i \in -1..(MockPdfPages + 1) :
            GetUnitText(id, i) /\ Len(tasks') <= AdapterCalls
    \/ \E k \in TaskIds, outcome \in EpubOutcomes \cup PdfOutcomes :
            ExtractResolve(k, outcome)
    \/ \E id \in 1..Len(handlers), i \in -1..(MockPdfPages + 1) :
            RenderUnit(id, i) /\ Len(tasks') <= AdapterCalls
    \/ \E k \in TaskIds, outcome \in RenderOutcomes, loaded \in 0..MaxBlobs :
            RenderResolve(k, outcome, loaded)
    \/ \E id \in 1..Len(handlers) : DestroyAdapter(id)

SpecAdapter == InitAdapter /\ [][NextAdapter]_vars

----------------------------------------------------------------------------
(* Specification of the page estimate: an EPUB of any chapter count is     *)
(* loaded and its adapter is asked for the estimate, before and after      *)
(* destroy                                                                 *)

\* EpubHandler.estimateTotalPages called on an adapter
Estimate(id) ==
    /\ handlers[id].kind = "epub"
    /\ ret' = Result(~ret.tick, id, 0, "estimate",
                     EstimateTotalPages(handlers[id].book,
                                        Len(handlers[id].chapters)))
    /\ UNCHANGED <<appVars, handlers, tasks, domVars, docAdapter, window,
                   sumVars>>

InitEstimate ==
    \E n \in 1..MaxEstimate : InitLoaded(EpubLoaded(TocChapters(n), 0))

NextEstimate ==
    \/ \E id \in 1..Len(handlers) : Estimate(id)
    \/ \E id \in 1..Len(handlers) : DestroyAdapter(id)

SpecEstimate == InitEstimate /\ [][NextEstimate]_vars

----------------------------------------------------------------------------
(* Specification of the PDF chaptering: a PDF of any page count is loaded  *)
(* and its adapter is asked for its chapters, before and after destroy     *)

\* PdfHandler.createChaptersFromPages called on an adapter
CreateChapters(id) ==
    /\ handlers[id].kind = "pdf"
    /\ ret' = Result(~ret.tick, id, 0, "chapters",
                     CreateChaptersFromPages(handlers[id].totalPages))
    /\ UNCHANGED <<appVars, handlers, tasks, domVars, docAdapter, window,
                   sumVars>>

InitChapters ==
    \E numPages \in 1..MaxPages : InitLoaded(PdfLoaded(numPages, 0))

NextChapters ==
    \/ \E id \in 1..Len(handlers) : CreateChapters(id)
    \/ \E id \in 1..Len(handlers) : DestroyAdapter(id)

SpecChapters == InitChapters /\ [][NextChapters]_vars

----------------------------------------------------------------------------
(* Specification of summaries: one document loaded; the key is edited in   *)
(* the settings dialog, summaries are requested and the chapter or page    *)
(* is changed, in any order                                            *)

\* an EPUB and a PDF read with their libraries
SummaryDocs ==
    {EpubLoaded(TocChapters(MaxToc), 0), PdfLoaded(MaxPdfPages, 0)}

\* loadSettings returned the stored settings, or failed
InitSummary ==
    /\ \E d \in SummaryDocs : LoadedState(d)
    /\ settings \in {StoredSettings, NoSettings}
    /\ settingsModal = FALSE
    /\ summaryPanel = NoSummary

NextSummary ==
    \/ OpenSettings
    \/ CloseSettings
    \/ \E input \in KeyInputs, ok \in BOOLEAN : SaveSettings(input, ok)
    \/ GenerateSummary /\ Len(tasks') <= SummaryCalls
    \/ \E k \in TaskIds, outcome \in EpubOutcomes \cup PdfOutcomes :
            SummaryTextResolve(k, outcome)
    \/ \E k \in TaskIds, result \in SummaryResults : SummaryReply(k, result)
    \/ CloseSummary
    \/ Idle /\ PreviousPage
    \/ Idle /\ NextPage
    \/ Idle /\ PreviousChapter
    \/ Idle /\ NextChapter
    \/ \E k \in TaskIds : NavRenderResolve(k)

SpecSummary == InitSummary /\ [][NextSummary]_vars

----------------------------------------------------------------------------
(* Specification of summaries during a session: documents are opened one   *)
(* load at a time, the key is saved and summaries are requested before,    *)
(* during and after the loads                                              *)

NextSession ==
    \/ ~Loading /\ OpenFile
    \/ \E k \in TaskIds : SelectCancel(k)
    \/ \E k \in TaskIds, f \in Files : SelectUnsupported(k, f)
    \/ \E k \in TaskIds, f \in Files : SelectEpub(k, f, SeqHandlers + 1)
    \/ \E k \in TaskIds, f \in Files : SelectPdf(k, f, SeqHandlers + 1)
    \/ \E k \in TaskIds, ok \in BOOLEAN : LibraryResolve(k, ok)
    \/ \E k \in TaskIds, ok \in BOOLEAN, navOk \in BOOLEAN,
          tocLen \in 0..MaxToc, spineLen \in 0..MaxSpine :
            EpubReadyResolve(k, ok, navOk, tocLen, spineLen)
    \/ \E k \in TaskIds, ok \in BOOLEAN, numPages \in 1..MaxPdfPages :
            PdfDocumentResolve(k, ok, numPages)
    \/ \E k \in TaskIds : MockResolve(k)
    \/ \E k \in TaskIds : OpenRenderResolve(k)
    \/ OpenSettings
    \/ \E input \in KeyInputs : SaveSettings(input, TRUE)
    \/ GenerateSummary
    \/ \E k \in TaskIds, outcome \in EpubOutcomes \cup PdfOutcomes :
            SummaryTextResolve(k, outcome)
    \/ \E k \in TaskIds, result \in SummaryResults : SummaryReply(k, result)

SpecSession == Init /\ [][NextSession]_vars

----------------------------------------------------------------------------
(* Specification of the images: one really loaded EPUB whose chapters hold *)
(* images; renders and destroy in any order, the image loads of a render   *)
(* settling before or after destroy                                        *)

InitImages == InitLoaded(EpubLoaded(TocChapters(MaxToc), MaxSeed))

NextImages ==
    \/ \E id \in 1..Len(handlers), i \in 0..(MaxToc - 1) : RenderUnit(id, i)
    \/ \E k \in TaskIds, outcome \in RenderOutcomes, loaded \in 0..2 :
            RenderResolve(k, outcome, loaded)
    \/ \E k \in TaskIds : RenderImages(k)
    \/ \E k \in TaskIds, ok \in BOOLEAN, rest \in 0..1 : ImageResolve(k, ok, rest)
    \/ \E id \in 1..Len(handlers) : DestroyAdapter(id)

SpecImages == InitImages /\ [][NextImages]_vars

----------------------------------------------------------------------------
(* Specification of the image lookup: one really loaded EPUB;              *)
(* loadImageFromEpub called for images that any of the ways can or cannot  *)
(* load, and destroy                                                       *)

NextLookup ==
    \/ \E id \in 1..Len(handlers), pathKind \in PathKinds,
          hasSection \in BOOLEAN, loadable \in SUBSET Strategies :
            LoadImage(id, pathKind, hasSection, loadable)
    \/ \E id \in 1..Len(handlers) : DestroyAdapter(id)

SpecLookup == InitImages /\ [][NextLookup]_vars

----------------------------------------------------------------------------
(* Specification of the excerpts: one document loaded; extractExcerpt is   *)
(* called with texts that hold the match behind few or about a hundred     *)
(* code units and in front of few or about a hundred                       *)

\* lengths of the text before and after the match
Pads == (0..1) \cup ((ContextLength - 1)..MaxPad)

ExcerptTexts ==
    {Repeat(c, before) \o <<"N", "e">> \o Repeat("b", after) :
        c \in {"a", "Idot"}, before \in Pads, after \in Pads}

ExcerptQueries == {<<"n", "e">>, <<"N", "E">>, <<"z">>}

InitExcerpt ==
    \E d \in {EpubLoaded(TocChapters(1), 0), PdfLoaded(1, 0)} : InitLoaded(d)

NextExcerpt ==
    \E id \in 1..Len(handlers), text \in ExcerptTexts, query \in ExcerptQueries :
        Excerpt(id, text, query)

SpecExcerpt == InitExcerpt /\ [][NextExcerpt]_vars

----------------------------------------------------------------------------
(* Specification of the keyboard: one document loaded; keys are pressed    *)
(* with the settings dialog open or closed and its input focused or not    *)

NextKeys ==
    \/ \E code \in KeyCodes, mod \in Modifiers, focus \in BOOLEAN :
            KeyPress(code, mod, focus) /\ Len(tasks') <= SummaryCalls
    \/ OpenSettings
    \/ \E input \in KeyInputs : SaveSettings(input, TRUE)
    \/ \E k \in TaskIds : SelectCancel(k)
    \/ \E k \in TaskIds : NavRenderResolve(k)
    \/ \E k \in TaskIds, outcome \in EpubOutcomes \cup PdfOutcomes :
            SummaryTextResolve(k, outcome)
    \/ \E k \in TaskIds, result \in SummaryResults : SummaryReply(k, result)

SpecKeys == InitSummary /\ [][NextKeys]_vars

----------------------------------------------------------------------------
(* Specification of the chapter list of large documents: one large EPUB    *)
(* loaded, chapter navigation and the jump elements used one event at a    *)
(* time                                                                    *)

\* documents just above the threshold of 100 chapters, and one of 300
ListDocs ==
    {EpubLoaded(TocChapters(n), 0) : n \in (101..MaxChapters) \cup {300}}

InitList == \E d \in ListDocs : InitLoaded(d)

NextList ==
    \/ Idle /\ PreviousChapter
    \/ Idle /\ NextChapter
    \/ \E chapterIndex \in Displayed(chaptersList) :
            Idle /\ GoToChapter(chapterIndex)
    \/ \E k \in TaskIds : NavRenderResolve(k)
    \/ Idle /\ JumpBefore
    \/ Idle /\ JumpAfter

SpecList == InitList /\ [][NextList]_vars

----------------------------------------------------------------------------
(* Specification of navigation: one document loaded (real or fallback,     *)
(* EPUB or PDF), the navigation methods called one event at a time         *)

InitNav == \E d \in TextDocs : InitLoaded(d)

NextNav ==
    \/ Idle /\ PreviousPage
    \/ Idle /\ NextPage
    \/ Idle /\ PreviousChapter
    \/ Idle /\ NextChapter
    \/ \E chapterIndex \in Displayed(chaptersList) :
            Idle /\ GoToChapter(chapterIndex)
    \/ \E k \in TaskIds : NavRenderResolve(k)

SpecNav == InitNav /\ [][NextNav]_vars

----------------------------------------------------------------------------
(* Properties *)

\* a step of one of the five navigation methods
NavigationStep ==
    \/ PreviousPage
    \/ NextPage
    \/ PreviousChapter
    \/ NextChapter
    \/ \E chapterIndex \in Displayed(chaptersList) : GoToChapter(chapterIndex)

\* C1: for every loaded document and every valid chapterIndex, the step in
\* which goToChapter(chapterIndex) runs leaves currentChapter =
\* chapterIndex and, when that chapter has a pageStart, currentPage = that
\* pageStart.
C1_GoToChapterSetsPosition ==
    [][\A chapterIndex \in 0..(Len(chapters) - 1) :
          GoToChapter(chapterIndex) =>
             /\ currentChapter' = chapterIndex
             /\ chapters[chapterIndex + 1].pageStart # 0 =>
                   currentPage' = chapters[chapterIndex + 1].pageStart]_vars

\* a chapter other than the first was made current by goToChapter in a
\* document whose chapters have pageStart, and the page followed
C1_Witness ==
    /\ Idle
    /\ currentChapter > 0
    /\ chaptersList.active = {currentChapter}
    /\ chapters[currentChapter + 1].pageStart > 1
    /\ currentPage = chapters[currentChapter + 1].pageStart

\* C2: whenever a document is loaded, 0 <= currentChapter < chapters.length
\* and 1 <= currentPage <= totalPages.
C2_PositionInBounds ==
    DocumentLoaded =>
        /\ 0 <= currentChapter /\ currentChapter < Len(chapters)
        /\ 1 <= currentPage /\ currentPage <= totalPages

\* C3: when a descriptor replaces the one of a loaded document, destroy()
\* has been called on the adapter of that previous document.
C3_TeardownBeforeReplace ==
    [][(docAdapter # 0 /\ docAdapter' # docAdapter) =>
          handlers[docAdapter].destroyed]_vars

\* C4: a navigation method changes the position or starts a render only in
\* the ready state.
C4_NavigationOnlyWhenReady ==
    [][NavigationStep => Ready]_vars

\* a step in which goToChapter runs updateChaptersList after its render
UpdateChaptersListStep ==
    \E k \in TaskIds : tasks[k].cont = "chapter" /\ NavRenderResolve(k)

\* the affordances of a list are shown exactly on the sides where the
\* window stops short of the document
AffordancesMatch(list, n) ==
    /\ list.before # <<>> <=> list.first > 0
    /\ list.after # <<>> <=> list.last < n

\* C5: for a large document with more than 100 chapters and current
\* chapter c, the window built by updateChaptersList has at most 50
\* chapters, contains c, has at most 25 chapters before c and at most 25
\* from c onward, and shows each affordance exactly when the window stops
\* short on that side; 300 chapters with c = 150 give [125,175) with both.
C5_WindowCentred ==
    [][(UpdateChaptersListStep /\ isLargeFile /\ Len(chapters) > 100) =>
          LET list == chaptersList'
              c == currentChapter'
              n == Len(chapters)
          IN /\ list.last - list.first <= 50
             /\ c \in Displayed(list)
             /\ c - list.first <= 25
             /\ list.last - c <= 25
             /\ AffordancesMatch(list, n)
             /\ (n = 300 /\ c = 150) =>
                   /\ list.first = 125 /\ list.last = 175
                   /\ list.before # <<>> /\ list.after # <<>>]_vars

\* C5 as the code has it: the window is [max(0,c-25), min(n,max(0,c-25)+50)),
\* so it has at most 25 chapters before c, and at most 25 from c onward
\* only when c >= 25; for c < 25 the window is [0,50).
C5_WindowClamped ==
    [][(UpdateChaptersListStep /\ isLargeFile /\ Len(chapters) > 100) =>
          LET list == chaptersList'
              c == currentChapter'
              n == Len(chapters)
          IN /\ list.last - list.first <= 50
             /\ c \in Displayed(list)
             /\ c - list.first <= 25
             /\ c >= 25 => list.last - c <= 25
             /\ c < 25 => (list.first = 0 /\ list.last = 50)
             /\ AffordancesMatch(list, n)
             /\ (n = 300 /\ c = 150) =>
                   /\ list.first = 125 /\ list.last = 175
                   /\ list.before # <<>> /\ list.after # <<>>]_vars

\* updateChaptersList has built the window of chapter 150 of 300
C5_Witness ==
    /\ Idle
    /\ isLargeFile
    /\ Len(chapters) = 300
    /\ currentChapter = 150
    /\ chaptersList.active = {150}
    /\ chaptersList.first = 125 /\ chaptersList.last = 175
    /\ chaptersList.before # <<>> /\ chaptersList.after # <<>>

\* C6: in every displayed chapter list (full, centred by
\* updateChaptersList, or reached by jump affordances) the current
\* chapter is displayed and is the only entry marked active.  Stated for
\* the lists displayed while no navigation is in progress.
C6_CurrentChapterActive ==
    (Idle /\ DocumentLoaded) =>
        /\ currentChapter \in Displayed(chaptersList)
        /\ chaptersList.active = {currentChapter}

\* C7: on a displayed window [s,e), the 'before' affordance displays
\* [max(0,s-50), s) and the 'after' affordance displays [e, min(n,e+50)).
C7_JumpWindows ==
    [][/\ JumpBefore =>
            /\ chaptersList'.first = Max(0, chaptersList.first - 50)
            /\ chaptersList'.last = chaptersList.first
       /\ JumpAfter =>
            /\ chaptersList'.first = chaptersList.last
            /\ chaptersList'.last =
                  Min(Len(chapters), chaptersList.last + 50)]_vars

\* C8: a getter call for a valid unit that follows a completed call for
\* the same unit of the same adapter returns the same text, from the
\* cache, without starting an extraction.
C8_SecondCallFromCache ==
    [][(/\ ret.status \in {"hit", "miss"}
        /\ ret'.tick # ret.tick
        /\ ret'.h = ret.h /\ ret'.unit = ret.unit
        /\ UnitInRange(handlers[ret.h], ret.unit)) =>
          /\ ret'.status = "hit"
          /\ ret'.text = ret.text
          /\ tasks' = tasks
          /\ handlers' = handlers]_vars

\* a call was answered from the cache with a text the library extracted
C8_Witness ==
    /\ ret.status = "hit"
    /\ ret.text # NoText
    /\ ret.text[1] = "text"
    /\ ret.unit \in DOMAIN handlers[ret.h].textContent

\* the texts a getter call can return for unit i when the cache has no
\* entry for it
MissTexts(h, i) ==
    IF UsesLibrary(h, i)
    THEN IF h.kind = "epub"
         THEN {EpubExtract(h.chapters[i + 1].title, o) : o \in EpubOutcomes}
         ELSE {PdfExtract(h.seed, i, o) : o \in PdfOutcomes}
    ELSE {FallbackText(h, i)}

\* C9: for every unit, the text a call returns when the cache holds an
\* entry equals the text the call would return with the entry absent,
\* whatever happened in earlier extraction attempts.
C9_HitEqualsMiss ==
    \A id \in 1..Len(handlers) :
       \A i \in DOMAIN handlers[id].textContent :
          UnitInRange(handlers[id], i) =>
             \A t \in MissTexts(handlers[id], i) :
                handlers[id].textContent[i] = t

\* C10: the cache holds an entry for a unit only when the extraction of
\* that unit succeeded: every entry is a text the library extracted.
C10_CacheOnlyOnSuccess ==
    \A id \in 1..Len(handlers) :
       \A i \in DOMAIN handlers[id].textContent :
          handlers[id].textContent[i][1] = "text"

\* C11: destroy() leaves the text cache empty, has revoked every blob URL
\* that was tracked and leaves none tracked; a destroy() that directly
\* follows a destroy() of the same adapter changes nothing.
C11_DestroyClears ==
    [][\A id \in 1..Len(handlers) :
          DestroyAdapter(id) =>
             /\ handlers'[id].textContent = EmptyMap
             /\ handlers'[id].imageBlobUrls = {}
             /\ handlers[id].imageBlobUrls \subseteq handlers'[id].revoked
             /\ (ret.status = "destroyed" /\ ret.h = id) =>
                   handlers' = handlers]_vars

\* an adapter that had cached text and tracked blob URLs was destroyed
C11_Witness ==
    /\ ret.status = "destroyed"
    /\ handlers[ret.h].destroyed
    /\ handlers[ret.h].revoked # {}
    /\ handlers[ret.h].imageBlobUrls = {}
    /\ handlers[ret.h].textContent = EmptyMap

\* a step in which a render method or a text getter is called: the call is
\* made on adapter ret'.h for unit ret'.unit
AdapterCall ==
    /\ ret'.tick # ret.tick
    /\ \/ GetUnitText(ret'.h, ret'.unit)
       \/ RenderUnit(ret'.h, ret'.unit)

\* the unit is outside [1, totalPages] (PDF) or [0, chapters.length) (EPUB)
OutOfRange(h, i) ==
    IF h.kind = "pdf" THEN i < 1 \/ i > h.totalPages
    ELSE i < 0 \/ i >= Len(h.chapters)

\* C12: a render or text call for a unit outside the range fails, adds
\* nothing to the text cache and changes no adapter state; after destroy()
\* every call fails.
C12_OutOfRangeFails ==
    [][(/\ AdapterCall
        /\ \/ OutOfRange(handlers[ret'.h], ret'.unit)
           \/ handlers[ret'.h].destroyed) =>
          /\ ret'.status = "throw"
          /\ handlers' = handlers
          /\ tasks' = tasks]_vars

\* a call on a destroyed adapter failed
C12_Witness ==
    /\ ret.status = "throw"
    /\ handlers[ret.h].destroyed
    /\ handlers[ret.h].textContent = EmptyMap

\* C18: renderChapter / renderPage called for a unit inside the range
\* never fails; when the library fails, the call returns the placeholder
\* of that unit and leaves the adapter and the navigation state as they
\* were.
C18_RenderNeverFails ==
    [][/\ (/\ ret'.tick # ret.tick
           /\ RenderUnit(ret'.h, ret'.unit)
           /\ ~OutOfRange(handlers[ret'.h], ret'.unit)) =>
             /\ ret'.status \in {"pending", "rendered"}
             /\ ret'.status = "rendered" => ret'.text = Placeholder(ret'.unit)
             /\ handlers' = handlers
             /\ UNCHANGED appVars
       /\ \A k \in TaskIds : \A outcome \in RenderOutcomes :
             \A loaded \in 0..MaxBlobs :
                RenderResolve(k, outcome, loaded) =>
                   /\ ret'.status = "rendered"
                   /\ ret'.unit = tasks[k].unit
                   /\ outcome = "error" =>
                         /\ ret'.text = Placeholder(tasks[k].unit)
                         /\ handlers' = handlers
                   /\ UNCHANGED appVars]_vars

\* the library failed on a unit of an adapter that holds its document, and
\* the call returned the placeholder of that unit
C18_Witness ==
    /\ ret.status = "rendered"
    /\ ret.text = Placeholder(ret.unit)
    /\ ~handlers[ret.h].destroyed
    /\ UnitInRange(handlers[ret.h], ret.unit)
    /\ UsesLibrary(handlers[ret.h], ret.unit)

\* a step of EpubHandler.loadBook fails before the chapters are read: the
\* library does not load, or the container / the metadata is not readable
LoadBookFailure(k) ==
    /\ tasks[k].h # 0
    /\ handlers[tasks[k].h].kind = "epub"
    /\ \/ LibraryResolve(k, FALSE)
       \/ \E navOk \in BOOLEAN, tocLen \in 0..MaxToc, spineLen \in 0..MaxSpine :
             EpubReadyResolve(k, FALSE, navOk, tocLen, spineLen)

\* reading the table of contents or the spine fails in a book that is ready
NavigationFailure(k) ==
    /\ tasks[k].h # 0
    /\ handlers[tasks[k].h].kind = "epub"
    /\ handlers[tasks[k].h].book
    /\ \E tocLen \in 0..MaxToc, spineLen \in 0..MaxSpine :
          EpubReadyResolve(k, TRUE, FALSE, tocLen, spineLen)

\* loadBook of the EPUB adapter of task k returns the chapters chs and the
\* page count pages
Returns(k, chs, pages) ==
    /\ handlers'[tasks[k].h].chapters = chs
    /\ docAdapter' = tasks[k].h
    /\ chapters' = chs
    /\ totalPages' = pages

\* a failure before the chapters are read leads to the mock load, which
\* returns the synthetic document of five chapters
FailureLeadsToMock ==
    \A k \in TaskIds :
       /\ LoadBookFailure(k) =>
             /\ tasks'[k].pc = "mock"
             /\ UNCHANGED <<appVars, domVars>>
       /\ (tasks[k].pc = "mock" /\ handlers[tasks[k].h].kind = "epub"
             /\ MockResolve(k)) =>
             /\ Len(MockEpubChapters) = 5
             /\ Returns(k, MockEpubChapters, 90)

\* C13 (amended): EpubHandler.loadBook never fails.  When the library, the
\* container or the metadata fails, it returns the synthetic document of
\* five chapters; when reading the table of contents or the spine fails,
\* it returns the one chapter 'Chapter 1' with 3 pages.
C13_LoadBookFallbacks ==
    [][/\ FailureLeadsToMock
       /\ \A k \in TaskIds :
             NavigationFailure(k) => Returns(k, FallbackChapters, 3)]_vars

\* C13 (as stated): whichever step of the real loading fails, the toc /
\* spine extraction included, the descriptor is the synthetic document of
\* five chapters.
C13_AnyFailureGivesMock ==
    [][/\ FailureLeadsToMock
       /\ \A k \in TaskIds :
             NavigationFailure(k) => Returns(k, MockEpubChapters, 90)]_vars

\* the session holds the one-chapter document of a book whose navigation
\* could not be read
C13_Witness ==
    /\ docAdapter # 0
    /\ handlers[docAdapter].kind = "epub"
    /\ handlers[docAdapter].book
    /\ chapters = FallbackChapters
    /\ totalPages = 3
    /\ ~Loading

\* C14: an open attempt ends in the error state only for a file whose
\* extension is neither .epub nor .pdf: the attempt for an .epub or a .pdf
\* (the one that created an adapter) never ends with the error shown.
C14_ErrorOnlyForUnsupported ==
    [][\A k \in TaskIds :
          (/\ tasks[k].kind = "open"
           /\ tasks[k].h # 0
           /\ handlers[tasks[k].h].kind \in {"epub", "pdf"}
           /\ tasks' = RemoveAt(tasks, k)) => ~errorShown']_vars

\* the requests the collaborator is working on
Requests == {k \in TaskIds : tasks[k].kind = "summary" /\ tasks[k].pc = "api"}

\* the stored key is missing or empty
KeyMissing == "openaiApiKey" \notin DOMAIN settings \/ settings.openaiApiKey = <<>>

\* C15: no request reaches the summarization collaborator with an empty or
\* missing key, and generateSummary called while the stored key is empty
\* or missing sends nothing and opens the settings dialog.
C15_NoRequestWithoutKey ==
    /\ [](\A k \in Requests :
             /\ tasks[k].apiKey # Undefined
             /\ tasks[k].apiKey # <<>>
             /\ Trim(tasks[k].apiKey) # <<>>)
    /\ [][(KeyMissing /\ GenerateSummary) =>
             /\ tasks' = tasks
             /\ settingsModal'
             /\ summaryPanel' = summaryPanel]_vars

\* the key was emptied while a summary waited for its text: the main
\* process refused the request, the collaborator was not asked, and a
\* summary asked for now opens the settings dialog
C15_Witness ==
    /\ KeyMissing
    /\ settingsModal
    /\ Requests = {}
    /\ \E k \in TaskIds : tasks[k].kind = "summary" /\ tasks[k].pc = "reply"

\* a step of generateSummary: its call or one of its continuations
SummaryStep ==
    \/ GenerateSummary
    \/ \E k \in TaskIds, outcome \in EpubOutcomes \cup PdfOutcomes :
          SummaryTextResolve(k, outcome)
    \/ \E k \in TaskIds, result \in SummaryResults : SummaryReply(k, result)

\* C17: generateSummary, whatever its outcome, leaves currentChapter,
\* currentPage, chapters and totalPages unchanged.
C17_SummaryKeepsNavigation ==
    [][SummaryStep =>
          UNCHANGED <<currentChapter, currentPage, chapters, totalPages>>]_vars

\* a summary has been written into the panel away from the first page
C17_Witness ==
    /\ summaryPanel.text # <<>>
    /\ summaryPanel.text[1] = "summary"
    /\ ~summaryPanel.loading
    /\ currentPage > 1

\* generateSummary sends its request in this step: a summary task appears
\* behind, or arrives from, the wait for the text
RequestIssued ==
    \E k \in 1..Len(tasks') :
       /\ tasks'[k].kind = "summary"
       /\ tasks'[k].pc \in {"api", "reply"}
       /\ k > Len(tasks) \/ tasks[k].pc = "sumtext"

\* C16: a summarization request is issued only in the ready state, not
\* before a document is loaded, while a load is in flight, or after a
\* failed open.
C16_RequestOnlyWhenReady ==
    [][RequestIssued => Ready]_vars

\* twice the factor C19 states for n chapters: 3 below 50, 2 from 50 to
\* 100, 1.5 above 100
StatedFactor2(n) == IF n < 50 THEN 6 ELSE IF n <= 100 THEN 4 ELSE 3

\* C19: for a really loaded EPUB with n chapters the estimate of the
\* adapter, and the totalPages of the session, is n times 3 when n is
\* below 50, n times 2 when n is between 50 and 100, and n times 1.5 when
\* n is above 100.
C19_EstimateFactors ==
    /\ (docAdapter # 0 /\ handlers[docAdapter].book) =>
          2 * totalPages = Len(chapters) * StatedFactor2(Len(chapters))
    /\ (ret.status = "estimate" /\ handlers[ret.h].book) =>
          2 * ret.text = Len(handlers[ret.h].chapters)
                           * StatedFactor2(Len(handlers[ret.h].chapters))

\* the branch of estimateTotalPages a chapter count falls in
Bucket(n) == IF n > 100 THEN "above 100" ELSE IF n > 50 THEN "above 50"
             ELSE "up to 50"

Partitions(chs, total, size) ==
    /\ chs # <<>>
    /\ chs[1].pageStart = 1
    /\ chs[Len(chs)].pageEnd = total
    /\ \A j \in 1..Len(chs) :
          /\ chs[j].pageStart <= chs[j].pageEnd
          /\ j < Len(chs) =>
                /\ chs[j].pageEnd - chs[j].pageStart + 1 = size
                /\ chs[j + 1].pageStart = chs[j].pageEnd + 1
          /\ j = Len(chs) => chs[j].pageEnd - chs[j].pageStart + 1 <= size
          /\ chs[j].title = (IF j = 1 THEN <<"Introduction">>
                             ELSE IF j = Len(chs) THEN <<"Conclusion">>
                             ELSE <<"Chapter", j>>)

\* C21: for every totalPages >= 1, createChaptersFromPages returns
\* contiguous ranges in order, each of size max(1, floor(totalPages / 7))
\* except possibly the last, covering 1..totalPages without gap or
\* overlap; the first is titled 'Introduction', the last of several
\* 'Conclusion', the others 'Chapter N'.  The session of a loaded PDF
\* holds these chapters.
C21_ChaptersPartitionPages ==
    /\ (ret.status = "chapters" /\ handlers[ret.h].totalPages >= 1) =>
          Partitions(ret.text, handlers[ret.h].totalPages,
                     Max(1, handlers[ret.h].totalPages \div 7))
    /\ (docAdapter # 0 /\ handlers[docAdapter].totalPages >= 1) =>
          Partitions(chapters, totalPages, Max(1, totalPages \div 7))

\* the adapter of a PDF of 45 pages has returned its 8 chapters
C21_Witness ==
    /\ ret.status = "chapters"
    /\ handlers[ret.h].totalPages = 45
    /\ Len(ret.text) = 8
    /\ ret.text[8].pageStart = 43
    /\ ret.text[8].pageEnd = 45

\* C22: when the content of a chapter of a really loaded EPUB is loaded
\* from the container without error, getChapterText returns the real
\* text of the chapter, not the placeholder text, and caches what it
\* returns under the chapter index.
C22_RealTextReturned ==
    [][\A k \in TaskIds :
          (/\ tasks[k].kind = "text"
           /\ handlers[tasks[k].h].kind = "epub"
           /\ handlers[tasks[k].h].book
           /\ ExtractResolve(k, "loaded")) =>
             /\ ret'.text # MockChapterText(tasks[k].title)
             /\ handlers'[tasks[k].h].textContent[tasks[k].unit] = ret'.text]_vars

\* C23: while a text input has focus or the settings modal is open, a key
\* press other than Escape triggers no navigation, summary or file
\* opening, and an Escape key press is handled in both situations: it
\* dismisses the settings modal.
C23_KeysSuppressedButEscape ==
    [][\A code \in KeyCodes, mod \in Modifiers, focus \in BOOLEAN :
          (KeyPress(code, mod, focus) /\ (focus \/ settingsModal)) =>
             IF code = "Escape"
             THEN settingsModal => ~settingsModal'
             ELSE UNCHANGED <<appVars, handlers, tasks, domVars, sumVars>>]_vars

\* the query matches the text at position p (from 0), letter case aside
MatchesAt(text, query, p) ==
    /\ p + Len(query) <= Len(text)
    /\ \A j \in 1..Len(query) : LowerUnit(text[p + j]) = LowerUnit(query[j])

\* the positions where the query occurs in the text
Matches(text, query) ==
    {p \in 0..Len(text) : MatchesAt(text, query, p)}

\* e is the stretch start..end of the text, with an ellipsis in front
\* exactly when start > 0 and behind exactly when end < length
IsExcerpt(e, text, start, end) ==
    /\ Len(e) = (end - start) + (IF start > 0 THEN 3 ELSE 0)
                              + (IF end < Len(text) THEN 3 ELSE 0)
    /\ e = (IF start > 0 THEN Ellipsis ELSE <<>>)
           \o Substring(text, start, end)
           \o (IF end < Len(text) THEN Ellipsis ELSE <<>>)

\* C24: for every text and every query that occurs in it, letter case
\* aside, extractExcerpt returns a stretch of the text that contains the
\* first match, starts at most 100 characters before it and ends at most
\* 100 characters after it, with '...' in front exactly when the stretch
\* does not start at the beginning of the text and '...' behind exactly
\* when it does not reach the end.
C24_ExcerptAroundMatch ==
    (ret.status = "excerpt" /\ Matches(ret.text.text, ret.text.query) # {}) =>
       LET text == ret.text.text
           query == ret.text.query
           p == CHOOSE m \in Matches(text, query) :
                   \A n \in Matches(text, query) : m <= n
       IN \E start \in Max(0, p - 100)..p :
             \E end \in (p + Len(query))..Min(Len(text), p + Len(query) + 100) :
                IsExcerpt(ret.text.excerpt, text, start, end)

\* the calls in flight: document loads (openFile past the file dialog),
\* unit renders (a render awaited by openFile or by a navigation method)
\* and summarization requests
LoadsInFlight ==
    {k \in 1..Len(tasks) : tasks[k].kind = "open" /\ tasks[k].pc # "select"}

RendersInFlight ==
    {k \in 1..Len(tasks) : tasks[k].kind \in {"open", "nav"}
                           /\ tasks[k].pc = "render"}

SummariesInFlight == {k \in 1..Len(tasks) : tasks[k].kind = "summary"}

\* C25: at any moment at most one document load, at most one unit render
\* and at most one summarization request is in flight.
C25_OneInFlight ==
    /\ Cardinality(LoadsInFlight) <= 1
    /\ Cardinality(RendersInFlight) <= 1
    /\ Cardinality(SummariesInFlight) <= 1

\* the adapter created for the file chosen last
LastOpened == Len(handlers)

\* C26: once every operation in flight has settled (and the last one did
\* not fail), the descriptor in chapters and totalPages is the one of the
\* file opened last and the displayed unit is the one the position names: no late result of a superseded load or render has overwritten
\* them.
C26_LateResultsDiscarded ==
    (Idle /\ handlers # <<>> /\ currentBook.ext \in {".epub", ".pdf"}
          /\ chapters # <<>> /\ ~errorShown) =>
        /\ docAdapter = LastOpened
        /\ documentContainer =
              RenderTarget(currentBook, epubHandler, pdfHandler, chapters,
                           currentChapter, currentPage)

\* the blob URLs adapter h created and has not passed to
\* URL.revokeObjectURL
Unrevoked(h) == (1..h.blobCount) \ h.revoked

\* C27: every blob URL an EPUB adapter created is tracked in imageBlobUrls
\* until it is revoked, and an adapter on which destroy() has run (as it
\* does when a newly opened document replaces it) has no unrevoked blob
\* URL, renders in flight at the time of destroy() included.
C27_NoBlobUrlLeaks ==
    \A id \in 1..Len(handlers) :
       handlers[id].kind = "epub" =>
          /\ Unrevoked(handlers[id]) \subseteq handlers[id].imageBlobUrls
          /\ handlers[id].destroyed => Unrevoked(handlers[id]) = {}

\* the order of the four ways as stated
StatedOrder == <<"exact", "relative", "manifest", "dirs">>

\* C28: loadImageFromEpub tries (1) the exact path, (2) the path relative
\* to the chapter, (3) the file name in the manifest, (4) the file name
\* under the conventional directories, a later way only after all earlier
\* ones have failed: the way that gave the image is preceded by no way
\* whose load would have succeeded.
C28_StrategiesInOrder ==
    ret.status = "image" =>
       \A j \in 1..Len(StatedOrder) :
          ret.text.used = StatedOrder[j] =>
             \A e \in 1..(j - 1) :
                StatedOrder[e] \in
                   {ResolveImagePaths(ret.text.pathKind, ret.text.hasSection)[l] :
                       l \in 1..Len(ResolveImagePaths(ret.text.pathKind,
                                                      ret.text.hasSection))}
                => StatedOrder[e] \notin ret.text.loadable

\* a step in which an openFile call ends without loading a document: the
\* dialog was cancelled or the chosen file has an unsupported extension
OpenWithoutLoad ==
    \E k \in TaskIds :
       \/ SelectCancel(k)
       \/ \E f \in Files : SelectUnsupported(k, f)

\* C29: with a document loaded, an open attempt that loads no document
\* leaves currentBook, chapters, totalPages, currentChapter, currentPage
\* and the active adapter as they were.
C29_FailedOpenKeepsSession ==
    [][(DocumentLoaded /\ OpenWithoutLoad) =>
          UNCHANGED <<currentBook, chapters, totalPages, currentChapter,
                      currentPage, epubHandler, pdfHandler, docAdapter>>]_vars

\* C30: for a loaded PDF, whatever navigation has run, currentPage lies
\* within [pageStart, pageEnd] of chapters[currentChapter].
C30_PageWithinChapter ==
    (DocumentLoaded /\ handlers[docAdapter].kind = "pdf"
        /\ currentBook.ext = ".pdf"
        /\ currentChapter >= 0 /\ currentChapter < Len(chapters)) =>
        /\ chapters[currentChapter + 1].pageStart <= currentPage
        /\ currentPage <= chapters[currentChapter + 1].pageEnd

====
